---- MODULE Spec2Model ----
(***************************************************************************)
(* Bonalyze Intelligence: the run orchestrator (main.py), the paginated    *)
(* fetch client (scraper.py) and the synchronization engine (data_sync.py) *)
(* as one state machine.  One process invocation is one run; the offers    *)
(* table outlives the runs.                                                *)
(*                                                                         *)
(* Time is a coarse integer clock.  isoformat() and the store's timestamp  *)
(* parsing are order preserving and injective on the clock values, so a    *)
(* timestamp is kept as its clock value.                                   *)
(***************************************************************************)
EXTENDS Integers, Sequences, FiniteSets, TLC

\* ---------------------------------------------------------------- bounds
MaxTime == 2
MaxOfferId == 2
PageSize == 1
MaxTextLen == 4
MaxPrice == 2
MaxTexts == 3
\* settings.EMBEDDING_BATCH_SIZE, 100 by default
EMBEDDING_BATCH_SIZE == 2
MaxNameWords == 2
MaxCount == 1

\* ------------------------------------------------------ program constants
EMBEDDING_DIMENSION == 768
MAX_RETRIES == 3
SYNC_MAX_ATTEMPTS == 3
DRY_RUN_MAX_ITEMS == 10
MAX_DURATION_DAYS == 14
DEFAULT_MAX_FAILURE_RATE == 35

TRANSIENT_STATUS_CODES == {408, 425, 429, 500, 502, 503, 504}

\* two of the stores of the default ALLOWED_STORES
AllowedStores == <<"kaufland", "edeka">>

\* ------------------------------------------------------------ small helpers
NoEmbedding == -1

NoTotal == -1

NoExit == -1

NoExc == [cls |-> "none", status |-> 0]

Range(s) == {s[i] : i \in 1..Len(s)}

SeqsUpTo(S, n) == UNION {[1..k -> S] : k \in 0..n}

\* time passes (header discovery, tenacity backoff): the clock may reach the next tick
Tick(t) == {t} \cup ({t + 1} \cap (1..MaxTime))

\* ------------------------------------------------------------------ state
VARIABLES
    now,              \* wall clock
    offers_table,     \* the store's "offers" table: a set of rows
    pc,               \* position of main_async
    run_start_time,
    dry_run,
    retailer_mapping, \* Scraper.retailer_mapping (its keys)
    stores,           \* the run's store list
    store_idx,        \* index of the retailer being processed
    total_stats,
    store_had_error,
    all_offers,       \* fetch_offers: offers collected so far
    offset,
    total_results,
    req_attempt,      \* _make_request: tenacity attempt number
    req_exc,          \* _make_request: last exception seen
    offers,           \* main_async: the retailer's offers
    sync_attempt,     \* sync_offers_batch: tenacity attempt number
    sync_exc,         \* sync_offers_batch: last exception seen
    exit_code,
    obs               \* what the run logged about the retailer of this iteration

vars == <<now, offers_table, pc, run_start_time, dry_run, retailer_mapping, stores,
          store_idx, total_stats, store_had_error, all_offers, offset, total_results,
          req_attempt, req_exc, offers, sync_attempt, sync_exc, exit_code, obs>>

fetchVars == <<all_offers, offset, total_results, req_attempt, req_exc>>

syncVars == <<sync_attempt, sync_exc>>

ZeroStats == [fetched |-> 0, inserted |-> 0, failed |-> 0, embedded |-> 0,
              pruned |-> 0, store_errors |-> 0]

NoObs == [phase |-> "IDLE", fetch_error |-> FALSE, mark |-> "none", sweep |-> "none",
          expiry_calls |-> 0, allow_partial_success |-> FALSE,
          failure_reason |-> "unevaluated", fetched |-> {}]

CurStore == stores[store_idx]

\* ------------------------------------------------------------- exceptions
\* what session.get / raise_for_status / response.json can raise
RequestExceptions ==
    {[cls |-> c, status |-> 0] : c \in {"Timeout", "Other"}}
        \cup {[cls |-> "HTTPError", status |-> s] : s \in ({404, 501, 503})}

\* what the store client can raise; status 0 stands for an APIError that carries
\* no integer status_code
StoreExceptions ==
    {[cls |-> c, status |-> 0] :
        c \in {"TimeoutError", "OSError", "Other"}}
        \cup {[cls |-> "APIError", status |-> s] : s \in ({404, 501, 503}) \cup {0}}

IsRetryableRequestException(exc) ==
    \/ exc.cls \in {"Timeout", "ConnectionError"}
    \/ exc.cls = "HTTPError" /\ exc.status \in TRANSIENT_STATUS_CODES

\* every exception counts as transient
IsRetryableSyncExceptionAlways(exc) == TRUE

IsRetryableSyncException(exc) ==
    IF exc.cls = "APIError"
    THEN IF exc.status # 0
         THEN exc.status \in TRANSIENT_STATUS_CODES \/ exc.status >= 500
         ELSE FALSE
    ELSE exc.cls \in {"TimeoutError", "ConnectionError", "OSError"}

\* tenacity: retry while the predicate holds and the attempt limit is not reached
ShouldRetryRequest(exc, attempt) ==
    IsRetryableRequestException(exc) /\ attempt < MAX_RETRIES

ShouldRetrySync(exc, attempt) ==
    IsRetryableSyncException(exc) /\ attempt < SYNC_MAX_ATTEMPTS

\* ----------------------------------------------------------------- offers
\* a raw item of a page: an offer id, or 0 for an item _parse_offer rejects.
\* The pipeline sees an offer through its id, retailer, product name, validity
\* end, scraped_at and embedding only.  A well-formed item yields an offer, as
\* tests/test_scraper_parse.py expects (models.py declares neither
\* MarktguruOffer.categories nor BonalyzeOffer.category, which _parse_offer uses).
RawItems == 0..MaxOfferId

ParseOffer(item, retailer) ==
    [offer_id |-> item, retailer |-> retailer, product_name |-> (item),
     valid_to |-> (IF item = 1 THEN 1 ELSE MaxTime + 1), scraped_at |-> now,
             embedding |-> NoEmbedding]

ParsedInPage(results, retailer) ==
    LET kept == SelectSeq(results, LAMBDA item : item # 0)
    IN [i \in 1..Len(kept) |-> ParseOffer(kept[i], retailer)]

\* -------------------------------------------------------------- embeddings
\* what the cache or the provider yields for a text: the length of the vector,
\* 0 for none
RawVectors == {0, EMBEDDING_DIMENSION - 1, EMBEDDING_DIMENSION}

IsValidEmbedding(values) ==
    (values # NoEmbedding /\ values # 0) /\ values = EMBEDDING_DIMENSION

\* get_embeddings_batch: the texts whose vector (cached or generated) is valid
GetEmbeddingsBatch(raw) ==
    [t \in {u \in DOMAIN raw : IsValidEmbedding(raw[u])} |-> raw[t]]

AssignEmbeddings(os, embeddings_map) ==
    [i \in 1..Len(os) |->
        [os[i] EXCEPT !.embedding =
            IF os[i].product_name \in DOMAIN embeddings_map
            THEN embeddings_map[os[i].product_name] ELSE NoEmbedding]]

MainHasValidEmbedding(o) ==
    (o.embedding # NoEmbedding /\ o.embedding # 0) /\ o.embedding = 768

MainValidOffers(os) == SelectSeq(os, MainHasValidEmbedding)

\* every offer of the batch is counted as failed by the embedding phase
DroppedOffersWholeBatch(before, after) == Len(before)

\* the dropped offers are not counted
DroppedOffersUncounted(before, after) == 0

DroppedOffers(before, after) == Len(before) - Len(after)

\* only the first offer of the batch gets the run timestamp
StampOffersFirstOnly(os, ts) ==
    [i \in 1..Len(os) |-> IF i = 1 THEN [os[i] EXCEPT !.scraped_at = ts] ELSE os[i]]

\* the run timestamp is not assigned: offers keep their construction time
StampOffersSkipped(os, ts) == os

StampOffers(os, ts) == [i \in 1..Len(os) |-> [os[i] EXCEPT !.scraped_at = ts]]

\* ------------------------------------------------------------ data_sync.py
SyncHasValidEmbedding(o) ==
    (o.embedding # NoEmbedding /\ o.embedding # 0) /\ o.embedding = 768

OffersToSync(os) == SelectSeq(os, SyncHasValidEmbedding)

\* the row takes the time of its construction, not the offer's scraped_at
BuildOfferRowStampedNow(offer) ==
    [offer_id |-> offer.offer_id, store |-> offer.retailer,
     product_name |-> offer.product_name, valid_until |-> offer.valid_to,
     scraped_at |-> now, embedding |-> offer.embedding]

BuildOfferRow(offer) ==
    [offer_id |-> offer.offer_id, store |-> offer.retailer,
     product_name |-> offer.product_name, valid_until |-> offer.valid_to,
     scraped_at |-> offer.scraped_at, embedding |-> offer.embedding]

DataToUpsert(os) ==
    [i \in 1..Len(OffersToSync(os)) |-> BuildOfferRow(OffersToSync(os)[i])]

\* the comparison turned round: gt where the code says lt
PruneFilterNewer(row, run_timestamp, retailer) ==
    row.store = retailer /\ row.scraped_at > run_timestamp

\* the retailer filter left out
PruneFilterAnyStore(row, run_timestamp, retailer) ==
    row.scraped_at < run_timestamp

PruneFilter(row, run_timestamp, retailer) ==
    row.store = retailer /\ row.scraped_at < run_timestamp

\* the comparison turned round: rows still valid are deleted
ExpiredFilterStillValid(row, t) == row.valid_until > t

ExpiredFilter(row, t) == row.valid_until < t

\* ---------------------------------------------------------------- the store
\* upsert keyed by offer_id: a row of the batch replaces the stored row of its key
Upsert(tbl, rows) ==
    LET ids == {rows[i].offer_id : i \in DOMAIN rows}
        last(id) == rows[CHOOSE i \in DOMAIN rows :
                            /\ rows[i].offer_id = id
                            /\ \A j \in DOMAIN rows : j > i => rows[j].offer_id # id]
    IN {r \in tbl : r.offer_id \notin ids} \cup {last(id) : id \in ids}

StaleRows(tbl, run_timestamp, retailer) ==
    {r \in tbl : PruneFilter(r, run_timestamp, retailer)}

ExpiredRows(tbl, t) == {r \in tbl : ExpiredFilter(r, t)}

\* ------------------------------------------------------------ run_policy.py
FailureRate(failed, fetched) ==
    IF fetched # 0 THEN [num |-> failed, den |-> fetched] ELSE [num |-> 1, den |-> 1]

\* rates are in percent; failure_rate > max_failure_rate
RateAbove(rate, max_pct) == rate.num * 100 > max_pct * rate.den

\* the upserted counter is not looked at
EvaluateUpsertedUnchecked(stats, failure_rate, is_dry_run, allow_partial_success, max_failure_rate) ==
    IF is_dry_run THEN "none"
    ELSE IF stats.fetched = 0 THEN "no_offers_fetched"
    ELSE IF stats.embedded = 0 THEN "no_embeddings"
    ELSE IF stats.store_errors > 0 /\ ~allow_partial_success THEN "retailers_failed"
    ELSE IF RateAbove(failure_rate, max_failure_rate) THEN "failure_rate_too_high"
    ELSE "none"

\* the dry-run check comes after the fetched check
EvaluateDryRunChecked2nd(stats, failure_rate, is_dry_run, allow_partial_success, max_failure_rate) ==
    IF stats.fetched = 0 THEN "no_offers_fetched"
    ELSE IF is_dry_run THEN "none"
    ELSE IF stats.embedded = 0 THEN "no_embeddings"
    ELSE IF stats.inserted = 0 THEN "upserted_zero"
    ELSE IF stats.store_errors > 0 /\ ~allow_partial_success THEN "retailers_failed"
    ELSE IF RateAbove(failure_rate, max_failure_rate) THEN "failure_rate_too_high"
    ELSE "none"

\* the fetched check is missing
EvaluateWithoutFetchedCheck(stats, failure_rate, is_dry_run, allow_partial_success, max_failure_rate) ==
    IF is_dry_run THEN "none"
    ELSE IF stats.embedded = 0 THEN "no_embeddings"
    ELSE IF stats.inserted = 0 THEN "upserted_zero"
    ELSE IF stats.store_errors > 0 /\ ~allow_partial_success THEN "retailers_failed"
    ELSE IF RateAbove(failure_rate, max_failure_rate) THEN "failure_rate_too_high"
    ELSE "none"

\* the upserted check comes before the embedded check
EvaluateUpsertedBeforeEmbedded(stats, failure_rate, is_dry_run, allow_partial_success, max_failure_rate) ==
    IF is_dry_run THEN "none"
    ELSE IF stats.fetched = 0 THEN "no_offers_fetched"
    ELSE IF stats.inserted = 0 THEN "upserted_zero"
    ELSE IF stats.embedded = 0 THEN "no_embeddings"
    ELSE IF stats.store_errors > 0 /\ ~allow_partial_success THEN "retailers_failed"
    ELSE IF RateAbove(failure_rate, max_failure_rate) THEN "failure_rate_too_high"
    ELSE "none"

EvaluateRunFailureReason(stats, failure_rate, is_dry_run, allow_partial_success, max_failure_rate) ==
    IF is_dry_run THEN "none"
    ELSE IF stats.fetched = 0 THEN "no_offers_fetched"
    ELSE IF stats.embedded = 0 THEN "no_embeddings"
    ELSE IF stats.inserted = 0 THEN "upserted_zero"
    ELSE IF stats.store_errors > 0 /\ ~allow_partial_success THEN "retailers_failed"
    ELSE IF RateAbove(failure_rate, max_failure_rate) THEN "failure_rate_too_high"
    ELSE "none"

\* ------------------------------------------------------------------- Init
Init ==
    /\ now = 1
    /\ offers_table = {}
    /\ pc = "start"
    /\ run_start_time = 0
    /\ dry_run = FALSE
    /\ retailer_mapping = {}
    /\ stores = <<>>
    /\ store_idx = 1
    /\ total_stats = ZeroStats
    /\ store_had_error = FALSE
    /\ all_offers = <<>>
    /\ offset = 0
    /\ total_results = NoTotal
    /\ req_attempt = 1
    /\ req_exc = NoExc
    /\ offers = <<>>
    /\ sync_attempt = 1
    /\ sync_exc = NoExc
    /\ exit_code = NoExit
    /\ obs = NoObs

\* --------------------------------------------------------- main.py: set-up
\* main.py 22-38: arguments and run_start_time (the discovery phase only yields
\* request headers)
StartRun ==
    /\ pc = "start"
    /\ run_start_time' = now
    /\ dry_run' \in BOOLEAN
    /\ total_stats' = ZeroStats
    /\ pc' = "init"
    /\ UNCHANGED <<now, offers_table, retailer_mapping, stores, store_idx,
                   store_had_error, fetchVars, offers, syncVars, exit_code, obs>>

\* main.py 55-65: Embedder() or DataSync() raises, main_async returns
InitFail ==
    /\ pc = "init"
    /\ ~dry_run
    /\ pc' = "exited"
    /\ exit_code' = 0
    /\ UNCHANGED <<now, offers_table, run_start_time, dry_run, retailer_mapping, stores,
                   store_idx, total_stats, store_had_error, fetchVars, offers, syncVars,
                   obs>>

StoresOf(mapping) ==
    IF mapping # {} THEN SelectSeq(AllowedStores, LAMBDA s : s \in mapping)
    ELSE AllowedStores

\* main.py 54-87: delete_expired_offers (never raises), Scraper set-up, store list
InitOk ==
    /\ pc = "init"
    /\ \E outcome \in {"ok", "error"} :
          offers_table' =
              IF dry_run \/ outcome = "error" THEN offers_table
              ELSE offers_table \ ExpiredRows(offers_table, now)
    /\ obs' = [obs EXCEPT !.expiry_calls = IF dry_run THEN @ ELSE @ + 1]
    /\ \E m \in ({{}, ({AllowedStores[i] : i \in 1..Len(AllowedStores)})}) :
          /\ retailer_mapping' = m
          /\ stores' = StoresOf(m)
    /\ store_idx' = 1
    /\ now' \in Tick(now)
    /\ pc' = "loop"
    /\ UNCHANGED <<run_start_time, dry_run, total_stats, store_had_error, fetchVars,
                   offers, syncVars, exit_code>>

\* ------------------------------------------------- main.py: retailer loop
SetObs(field, value) == [obs EXCEPT ![field] = value]

\* the end of one iteration of `for store in stores`
NextIteration ==
    /\ store_idx' = store_idx + 1
    /\ pc' = "loop"

\* main.py 89-96, scraper.py 131-144: entry of fetch_offers
BeginStore ==
    /\ pc = "loop"
    /\ store_idx <= Len(stores)
    /\ store_had_error' = FALSE
    /\ \E m \in ({{}, ({AllowedStores[i] : i \in 1..Len(AllowedStores)})}) :
          /\ retailer_mapping' = IF retailer_mapping = {} THEN m ELSE retailer_mapping
          /\ IF CurStore \in retailer_mapping'
             THEN /\ pc' = "fetch"
                  /\ obs' = [NoObs EXCEPT !.phase = "FETCHING", !.expiry_calls = obs.expiry_calls]
                  /\ UNCHANGED store_idx
             ELSE \* unknown retailer key: fetch_offers returns [], main continues
                  /\ NextIteration
                  /\ obs' = [NoObs EXCEPT !.phase = "DONE", !.expiry_calls = obs.expiry_calls]
    /\ all_offers' = <<>>
    /\ offset' = 0
    /\ total_results' = NoTotal
    /\ req_attempt' = 1
    /\ req_exc' = NoExc
    /\ UNCHANGED <<now, offers_table, run_start_time, dry_run, stores, total_stats, offers,
                   syncVars, exit_code>>

EndLoop ==
    /\ pc = "loop"
    /\ store_idx > Len(stores)
    /\ pc' = "summary"
    /\ UNCHANGED <<now, offers_table, run_start_time, dry_run, retailer_mapping, stores,
                   store_idx, total_stats, store_had_error, fetchVars, offers, syncVars,
                   exit_code, obs>>

\* ------------------------------------------------ scraper.py: fetch_offers
MaxItems == IF dry_run THEN DRY_RUN_MAX_ITEMS ELSE 0

MaxItemsReached(collected) == MaxItems # 0 /\ Len(collected) >= MaxItems

IsListingPage(results, collected) ==
    \A i \in 1..Len(results) :
        results[i] # 0 =>
            /\ results[i] > (IF collected = <<>> THEN 0 ELSE collected[Len(collected)].offer_id)
            /\ \A j \in 1..(i - 1) : results[j] < results[i]

\* the loop goes on after the last page totalResults announced, until a page
\* comes back empty
FetchPageOkUntilEmpty ==
    /\ pc = "fetch"
    /\ ~MaxItemsReached(all_offers)
    /\ \E total \in IF total_results = NoTotal THEN (0..MaxOfferId) ELSE {total_results},
          results \in SeqsUpTo(RawItems, PageSize) :
          /\ IsListingPage(results, all_offers)
          /\ total_results' = total
          /\ IF results = <<>>
             THEN /\ pc' = "fetched"
                  /\ UNCHANGED <<all_offers, offset>>
             ELSE /\ all_offers' = all_offers \o ParsedInPage(results, CurStore)
                  /\ offset' = offset + PageSize
                  /\ IF MaxItemsReached(all_offers')
                     THEN pc' = "fetched"
                     ELSE pc' = "fetch"
    /\ req_attempt' = 1
    /\ req_exc' = NoExc
    /\ UNCHANGED <<now, offers_table, run_start_time, dry_run, retailer_mapping, stores,
                   store_idx, total_stats, store_had_error, offers, syncVars, exit_code,
                   obs>>

\* scraper.py 161-197: one page request that succeeds
FetchPageOk ==
    /\ pc = "fetch"
    /\ ~MaxItemsReached(all_offers)
    /\ \E total \in IF total_results = NoTotal THEN (0..MaxOfferId) ELSE {total_results},
          results \in SeqsUpTo(RawItems, PageSize) :
          /\ IsListingPage(results, all_offers)
          /\ total_results' = total
          /\ IF results = <<>>
             THEN /\ pc' = "fetched"
                  /\ UNCHANGED <<all_offers, offset>>
             ELSE /\ all_offers' = all_offers \o ParsedInPage(results, CurStore)
                  /\ offset' = offset + PageSize
                  /\ IF offset' >= total \/ MaxItemsReached(all_offers')
                     THEN pc' = "fetched"
                     ELSE pc' = "fetch"
    /\ req_attempt' = 1
    /\ req_exc' = NoExc
    /\ UNCHANGED <<now, offers_table, run_start_time, dry_run, retailer_mapping, stores,
                   store_idx, total_stats, store_had_error, offers, syncVars, exit_code,
                   obs>>

\* scraper.py 115-129 and 199-201: a page request that raises; tenacity retries
\* it or the exception reaches the except of fetch_offers, which leaves the loop
FetchPageError ==
    /\ pc = "fetch"
    /\ ~MaxItemsReached(all_offers)
    /\ \E exc \in RequestExceptions :
          IF ShouldRetryRequest(exc, req_attempt)
          THEN /\ req_attempt' = req_attempt + 1
               /\ req_exc' = exc
               /\ UNCHANGED <<pc, obs>>
          ELSE /\ pc' = "fetched"
               /\ obs' = SetObs("fetch_error", TRUE)
               /\ UNCHANGED <<req_attempt, req_exc>>
    /\ UNCHANGED <<now, offers_table, run_start_time, dry_run, retailer_mapping, stores,
                   store_idx, total_stats, store_had_error, all_offers, offset,
                   total_results, offers, syncVars, exit_code>>

\* a retailer whose fetch returned nothing is swept all the same
FetchReturnSweepsWhenEmpty ==
    /\ pc = "fetched"
    /\ total_stats' = [total_stats EXCEPT !.fetched = @ + Len(all_offers)]
    /\ IF Len(all_offers) = 0
       THEN /\ pc' = (IF dry_run THEN "loop" ELSE "sweep")
            /\ store_idx' = (IF dry_run THEN store_idx + 1 ELSE store_idx)
            /\ offers' = <<>>
            /\ obs' = SetObs("phase", IF dry_run THEN "DONE" ELSE "SWEEPING")
       ELSE IF dry_run
       THEN /\ NextIteration
            /\ offers' = <<>>
            /\ obs' = SetObs("phase", "DONE")
       ELSE /\ pc' = "embed"
            /\ offers' = all_offers
            /\ obs' = [obs EXCEPT !.phase = "EMBEDDING",
                                  !.fetched = {o.offer_id : o \in Range(all_offers)}]
            /\ UNCHANGED store_idx
    /\ all_offers' = <<>>
    /\ offset' = 0
    /\ total_results' = NoTotal
    /\ req_attempt' = 1
    /\ req_exc' = NoExc
    /\ UNCHANGED <<now, offers_table, run_start_time, dry_run, retailer_mapping, stores,
                   store_had_error, syncVars, exit_code>>

\* the embedding and sync phases are entered in a dry run too
FetchReturnSyncsInDryRun ==
    /\ pc = "fetched"
    /\ total_stats' = [total_stats EXCEPT !.fetched = @ + Len(all_offers)]
    /\ IF Len(all_offers) = 0
       THEN /\ NextIteration
            /\ offers' = <<>>
            /\ obs' = SetObs("phase", "DONE")
       ELSE /\ pc' = "embed"
            /\ offers' = all_offers
            /\ obs' = SetObs("phase", "EMBEDDING")
            /\ UNCHANGED store_idx
    /\ all_offers' = <<>>
    /\ offset' = 0
    /\ total_results' = NoTotal
    /\ req_attempt' = 1
    /\ req_exc' = NoExc
    /\ UNCHANGED <<now, offers_table, run_start_time, dry_run, retailer_mapping, stores,
                   store_had_error, syncVars, exit_code>>

\* scraper.py 203-205 and main.py 96-108: fetch_offers returns
FetchReturn ==
    /\ pc = "fetched"
    /\ total_stats' = [total_stats EXCEPT !.fetched = @ + Len(all_offers)]
    /\ IF Len(all_offers) = 0
       THEN /\ NextIteration
            /\ offers' = <<>>
            /\ obs' = SetObs("phase", "DONE")
       ELSE IF dry_run
       THEN \* no embedder, no sync
            /\ NextIteration
            /\ offers' = <<>>
            /\ obs' = SetObs("phase", "DONE")
       ELSE /\ pc' = "embed"
            /\ offers' = all_offers
            /\ obs' = [obs EXCEPT !.phase = "EMBEDDING",
                                  !.fetched = {o.offer_id : o \in Range(all_offers)}]
            /\ UNCHANGED store_idx
    /\ all_offers' = <<>>
    /\ offset' = 0
    /\ total_results' = NoTotal
    /\ req_attempt' = 1
    /\ req_exc' = NoExc
    /\ UNCHANGED <<now, offers_table, run_start_time, dry_run, retailer_mapping, stores,
                   store_had_error, syncVars, exit_code>>

\* ------------------------------------------------- main.py: embedding phase
\* main.py 108-128: embeddings are assigned by product name, offers without a
\* valid vector are dropped and counted as failed
EmbedOffers ==
    /\ pc = "embed"
    /\ \E raw \in [{o.product_name : o \in Range(offers)} -> RawVectors] :
          LET embeddings_map == GetEmbeddingsBatch(raw)
              assigned == AssignEmbeddings(offers, embeddings_map)
              valid == MainValidOffers(assigned)
              dropped_offers == DroppedOffers(assigned, valid)
          IN /\ offers' = valid
             /\ IF valid = <<>>
                THEN /\ total_stats' = [total_stats EXCEPT !.failed = @ + dropped_offers]
                     /\ NextIteration
                     /\ obs' = SetObs("phase", "DONE")
                ELSE /\ total_stats' =
                           [total_stats EXCEPT
                               !.failed = @ + dropped_offers,
                               !.embedded = @ + Cardinality(DOMAIN embeddings_map)]
                     /\ pc' = "mark"
                     /\ obs' = SetObs("phase", "MARKING")
                     /\ UNCHANGED store_idx
    /\ sync_attempt' = 1
    /\ sync_exc' = NoExc
    /\ UNCHANGED <<now, offers_table, run_start_time, dry_run, retailer_mapping, stores,
                   store_had_error, fetchVars, exit_code>>

\* ------------------------------------------------------ main.py: sync phase
\* data_sync.py 120-122: the rows the store returns with the response; a store
\* that returns no representation leaves the inserted counter as it was
ResponseData(rows) == {<<>>, rows}

\* main.py 138-146, data_sync.py 93-129: the upsert succeeds
SyncOk ==
    /\ pc = "mark"
    /\ LET stamped == StampOffers(offers, run_start_time)
           rows == DataToUpsert(stamped)
       IN /\ offers' = stamped
          /\ offers_table' = Upsert(offers_table, rows)
          /\ \E response_data \in ResponseData(rows) :
                total_stats' = [total_stats EXCEPT
                                   !.inserted = @ + Len(response_data),
                                   !.failed = @ + (Len(stamped) - Len(OffersToSync(stamped)))]
    /\ pc' = "sweep"
    /\ obs' = [obs EXCEPT !.mark = "returned", !.phase = "SWEEPING"]
    /\ sync_attempt' = 1
    /\ sync_exc' = NoExc
    /\ UNCHANGED <<now, run_start_time, dry_run, retailer_mapping, stores, store_idx,
                   store_had_error, fetchVars, exit_code>>

\* the except branch goes on to the sweep
SyncRaisedThenSweep(n_offers) ==
    /\ total_stats' = [total_stats EXCEPT !.failed = @ + n_offers, !.store_errors = @ + 1]
    /\ store_had_error' = TRUE
    /\ obs' = [obs EXCEPT !.mark = "raised", !.phase = "FAILED"]
    /\ pc' = "sweep"
    /\ UNCHANGED store_idx

\* the exception leaves the retailer loop
SyncRaisedAbortsRun(n_offers) ==
    /\ total_stats' = [total_stats EXCEPT !.failed = @ + n_offers, !.store_errors = @ + 1]
    /\ store_had_error' = TRUE
    /\ obs' = [obs EXCEPT !.mark = "raised", !.phase = "FAILED"]
    /\ pc' = "exited"
    /\ UNCHANGED store_idx

\* the batch is counted as failed once for every attempt that was made
SyncRaisedCountsAttempts(n_offers) ==
    /\ total_stats' = [total_stats EXCEPT !.failed = @ + n_offers * sync_attempt,
                                          !.store_errors = @ + 1]
    /\ store_had_error' = TRUE
    /\ obs' = [obs EXCEPT !.mark = "raised", !.phase = "FAILED"]
    /\ NextIteration

\* main.py 157-166: the except branch of the sync phase
SyncRaised(n_offers) ==
    /\ total_stats' = [total_stats EXCEPT !.failed = @ + n_offers, !.store_errors = @ + 1]
    /\ store_had_error' = TRUE
    /\ obs' = [obs EXCEPT !.mark = "raised", !.phase = "FAILED"]
    /\ NextIteration

\* data_sync.py 87-129: the upsert raises; tenacity calls sync_offers_batch again
\* or the exception reaches main_async
SyncError ==
    /\ pc = "mark"
    /\ LET stamped == StampOffers(offers, run_start_time)
           rows == DataToUpsert(stamped)
       IN /\ \E exc \in StoreExceptions, applied \in BOOLEAN :
                /\ applied => (exc.cls \in {"TimeoutError", "ConnectionError", "OSError"})
                /\ offers_table' = IF applied THEN Upsert(offers_table, rows) ELSE offers_table
                /\ IF ShouldRetrySync(exc, sync_attempt)
                   THEN /\ sync_attempt' = sync_attempt + 1
                        /\ sync_exc' = exc
                        /\ now' \in Tick(now)
                        /\ offers' = stamped
                        /\ UNCHANGED <<pc, store_idx, total_stats, store_had_error, obs>>
                   ELSE /\ SyncRaised(Len(stamped))
                        /\ offers' = <<>>
                        /\ sync_attempt' = 1
                        /\ sync_exc' = NoExc
                        /\ UNCHANGED now
    /\ UNCHANGED <<run_start_time, dry_run, retailer_mapping, stores, fetchVars, exit_code>>

\* ----------------------------------------------------- main.py: sweep phase
\* data_sync.py 136-145: the delete succeeds, the number of deleted rows is returned
PruneOk ==
    /\ offers_table' = offers_table \ StaleRows(offers_table, run_start_time, CurStore)
    /\ total_stats' =
          [total_stats EXCEPT
              !.pruned = @ + Cardinality(StaleRows(offers_table, run_start_time, CurStore))]
    /\ obs' = [obs EXCEPT !.sweep = "ok", !.phase = "DONE"]
    /\ UNCHANGED store_had_error

\* the delete's exception leaves prune_stale_offers and reaches main's except branch
PruneFailedRaises ==
    /\ offers_table' = offers_table
    /\ total_stats' = [total_stats EXCEPT !.failed = @ + Len(offers), !.store_errors = @ + 1]
    /\ obs' = [obs EXCEPT !.sweep = "error", !.phase = "FAILED"]
    /\ store_had_error' = TRUE

\* data_sync.py 147-149: the delete raises, prune_stale_offers logs it and returns 0
PruneFailed ==
    /\ offers_table' = offers_table
    /\ total_stats' = [total_stats EXCEPT !.pruned = @ + 0]
    /\ obs' = [obs EXCEPT !.sweep = "error", !.phase = "DONE"]
    /\ UNCHANGED store_had_error

\* main.py 150-166: prune_stale_offers, get_total_count, end of the iteration
PruneStaleOffers ==
    /\ pc = "sweep"
    /\ \E outcome \in {"ok", "error"} :
          IF outcome = "ok" THEN PruneOk ELSE PruneFailed
    /\ NextIteration
    /\ offers' = <<>>
    /\ UNCHANGED <<now, run_start_time, dry_run, retailer_mapping, stores, fetchVars,
                   syncVars, exit_code>>

\* the failure reason is logged but SystemExit is not raised
SummaryWithoutExit ==
    /\ pc = "summary"
    /\ \E allow_partial_success \in BOOLEAN, max_failure_rate \in ({0, DEFAULT_MAX_FAILURE_RATE,
            100}) :
          LET failure_rate == FailureRate(total_stats.failed, total_stats.fetched)
              failure_reason ==
                  EvaluateRunFailureReason(total_stats, failure_rate, dry_run,
                                           allow_partial_success, max_failure_rate)
          IN /\ exit_code' = 0
             /\ obs' = [obs EXCEPT !.allow_partial_success = allow_partial_success,
                                   !.failure_reason = failure_reason]
    /\ pc' = "exited"
    /\ UNCHANGED <<now, offers_table, run_start_time, dry_run, retailer_mapping, stores,
                   store_idx, total_stats, store_had_error, fetchVars, offers, syncVars>>

\* ------------------------------------------------------- main.py: summary
\* main.py 176-207
Summary ==
    /\ pc = "summary"
    /\ \E allow_partial_success \in BOOLEAN, max_failure_rate \in ({0, DEFAULT_MAX_FAILURE_RATE,
            100}) :
          LET failure_rate == FailureRate(total_stats.failed, total_stats.fetched)
              failure_reason ==
                  EvaluateRunFailureReason(total_stats, failure_rate, dry_run,
                                           allow_partial_success, max_failure_rate)
          IN /\ exit_code' = IF failure_reason # "none" THEN 2 ELSE 0
             /\ obs' = [obs EXCEPT !.allow_partial_success = allow_partial_success,
                                   !.failure_reason = failure_reason]
    /\ pc' = "exited"
    /\ UNCHANGED <<now, offers_table, run_start_time, dry_run, retailer_mapping, stores,
                   store_idx, total_stats, store_had_error, fetchVars, offers, syncVars>>

\* the next process invocation, at a later time
NewInvocation ==
    /\ pc = "exited"
    /\ now < MaxTime
    /\ now' = now + 1
    /\ pc' = "start"
    /\ run_start_time' = 0
    /\ dry_run' = FALSE
    /\ retailer_mapping' = {}
    /\ stores' = <<>>
    /\ store_idx' = 1
    /\ total_stats' = ZeroStats
    /\ store_had_error' = FALSE
    /\ offers' = <<>>
    /\ exit_code' = NoExit
    /\ obs' = NoObs
    /\ UNCHANGED <<offers_table, fetchVars, syncVars>>

Next ==
    \/ StartRun
    \/ InitFail
    \/ InitOk
    \/ BeginStore
    \/ EndLoop
    \/ FetchPageOk
    \/ FetchPageError
    \/ FetchReturn
    \/ EmbedOffers
    \/ SyncOk
    \/ SyncError
    \/ PruneStaleOffers
    \/ Summary
    \/ NewInvocation

Spec == Init /\ [][Next]_vars

\* the run is one sequential process: every step that can be taken is taken
FairSpec == Spec /\ WF_vars(Next)

\* ------------------------------------- run_policy.py: the evaluator on its own
\* the variables of the pipeline that a call of a pure function leaves alone
PipelineIdle ==
    /\ now = 1
    /\ offers_table = {}
    /\ run_start_time = 0
    /\ retailer_mapping = {}
    /\ stores = <<>>
    /\ store_idx = 1
    /\ store_had_error = FALSE
    /\ all_offers = <<>>
    /\ offset = 0
    /\ total_results = NoTotal
    /\ req_attempt = 1
    /\ req_exc = NoExc
    /\ offers = <<>>
    /\ sync_attempt = 1
    /\ sync_exc = NoExc
    /\ exit_code = NoExit

PolicyInit ==
    /\ PipelineIdle
    /\ pc = "policy"
    /\ total_stats \in ([fetched : (0..MaxCount), inserted : (0..MaxCount), failed : {0},
            embedded : (0..MaxCount), pruned : {0}, store_errors : (0..MaxCount),
            failure_rate : ({[num |-> 0, den |-> 1], [num |-> 35, den |-> 100], [num |-> 36,
            den |-> 100], [num |-> 1, den |-> 1]})])
    /\ dry_run \in BOOLEAN
    /\ obs = NoObs

\* run_policy.py 4-32: one call of evaluate_run_failure_reason
PolicyCall ==
    /\ pc = "policy"
    /\ \E allow_partial_success \in BOOLEAN, max_failure_rate \in ({0, DEFAULT_MAX_FAILURE_RATE,
            100}) :
          obs' = [allow_partial_success |-> allow_partial_success,
                  max_failure_rate |-> max_failure_rate,
                  failure_reason |->
                      EvaluateRunFailureReason(total_stats, total_stats.failure_rate, dry_run,
                                               allow_partial_success, max_failure_rate)]
    /\ pc' = "policy_done"
    /\ UNCHANGED <<now, offers_table, run_start_time, dry_run, retailer_mapping, stores,
                   store_idx, total_stats, store_had_error, fetchVars, offers, syncVars,
                   exit_code>>

PolicySpec == PolicyInit /\ [][(PolicyCall)]_vars

\* ------------------------------------------------------- normalization.py
\* texts are sequences of characters
WhitespaceChars == {" "}

RECURSIVE CollapseWhitespace(_)
\* re.sub(r"\s+", " ", value): every run of whitespace becomes one space
CollapseWhitespace(value) ==
    IF value = <<>> THEN <<>>
    ELSE IF Head(value) \notin WhitespaceChars
    THEN <<Head(value)>> \o CollapseWhitespace(Tail(value))
    ELSE IF Len(value) > 1 /\ value[2] \in WhitespaceChars
    THEN CollapseWhitespace(Tail(value))
    ELSE <<" ">> \o CollapseWhitespace(Tail(value))

RECURSIVE StripLeft(_)
StripLeft(value) ==
    IF value # <<>> /\ Head(value) \in WhitespaceChars THEN StripLeft(Tail(value))
    ELSE value

RECURSIVE StripRight(_)
StripRight(value) ==
    IF value # <<>> /\ value[Len(value)] \in WhitespaceChars
    THEN StripRight(SubSeq(value, 1, Len(value) - 1))
    ELSE value

\* str.strip()
Strip(value) == StripRight(StripLeft(value))

\* normalization.py 5-9
NormalizeWhitespace(value) ==
    IF value = <<>> THEN <<>> ELSE Strip(CollapseWhitespace(value))

RECURSIVE AsciiFold(_)
\* unicodedata.normalize("NFKD", ...).encode("ascii", "ignore"): a letter with
\* a diacritic keeps its base letter, a character without an ASCII
\* decomposition is dropped
AsciiFold(value) ==
    IF value = <<>> THEN <<>>
    ELSE (CASE Head(value) = "ä" -> <<"a">>
            [] Head(value) = "ß" -> <<>>
            [] OTHER -> <<Head(value)>>) \o AsciiFold(Tail(value))

\* str.lower() for the letters A to Z
LowerOf ==
    [
     A |-> "a", B |-> "b", C |-> "c", D |-> "d", E |-> "e", F |-> "f", G |-> "g", H |-> "h", I
     |-> "i", J |-> "j", K |-> "k", L |-> "l", M |-> "m", N |-> "n", O |-> "o", P |-> "p", Q
     |-> "q", R |-> "r", S |-> "s", T |-> "t", U |-> "u", V |-> "v", W |-> "w", X |-> "x", Y
     |-> "y", Z |-> "z"
    ]

\* str.lower()
Lower(value) ==
    [i \in DOMAIN value |-> IF value[i] \in DOMAIN LowerOf THEN LowerOf[value[i]] ELSE value[i]]

SlugChars == {"a", "0"}

RECURSIVE DashRuns(_)
\* re.sub(r"[^a-z0-9]+", "-", ...): every run of other characters becomes "-"
DashRuns(value) ==
    IF value = <<>> THEN <<>>
    ELSE IF Head(value) \in SlugChars THEN <<Head(value)>> \o DashRuns(Tail(value))
    ELSE IF Len(value) > 1 /\ value[2] \notin SlugChars THEN DashRuns(Tail(value))
    ELSE <<"-">> \o DashRuns(Tail(value))

RECURSIVE CollapseDashes(_)
\* re.sub(r"-{2,}", "-", ...)
CollapseDashes(value) ==
    IF value = <<>> THEN <<>>
    ELSE IF Head(value) = "-" /\ Len(value) > 1 /\ value[2] = "-"
    THEN CollapseDashes(Tail(value))
    ELSE <<Head(value)>> \o CollapseDashes(Tail(value))

RECURSIVE StripDashesLeft(_)
StripDashesLeft(value) ==
    IF value # <<>> /\ Head(value) = "-" THEN StripDashesLeft(Tail(value)) ELSE value

RECURSIVE StripDashesRight(_)
StripDashesRight(value) ==
    IF value # <<>> /\ value[Len(value)] = "-"
    THEN StripDashesRight(SubSeq(value, 1, Len(value) - 1))
    ELSE value

\* normalization.py 12-22
Slugify(value) ==
    LET normalized == NormalizeWhitespace(value)
    IN IF normalized = <<>> THEN <<>>
       ELSE StripDashesRight(StripDashesLeft(
                CollapseDashes(DashRuns(Lower(AsciiFold(normalized))))))

\* ------------------------------------------------- models.py: BonalyzeOffer
\* the value None where a text is expected
NoneValue == <<"None">>

\* str(value or "")
StrOrEmpty(value) == IF value = NoneValue THEN <<>> ELSE value

ConstructionFails == [ok |-> FALSE]

\* a regular_price below the price is kept
ClampRegularPriceKept(value, price) == value

\* models.py 85-92: _clamp_regular_price
ClampRegularPrice(value, price) == IF value < price THEN price ELSE value

\* models.py 51-92: BonalyzeOffer(**kwargs) fails with a ValidationError or
\* gives the model; price and regular_price are declared with ge=0, and the
\* clamp runs after that constraint
BonalyzeOffer(kwargs) ==
    LET product_name == NormalizeWhitespace(StrOrEmpty(kwargs.product_name))
        offer_id == NormalizeWhitespace(StrOrEmpty(kwargs.offer_id))
    IN IF \/ product_name = <<>>
          \/ offer_id = <<>>
          \/ kwargs.price < 0
          \/ kwargs.regular_price < 0
       THEN ConstructionFails
       ELSE [ok |-> TRUE, product_name |-> product_name, offer_id |-> offer_id,
             price |-> kwargs.price,
             regular_price |-> ClampRegularPrice(kwargs.regular_price, kwargs.price)]

RECURSIVE TextsOfLen(_, _)
TextsOfLen(chars, n) ==
    IF n = 0 THEN {<<>>}
    ELSE {<<c>> \o t : c \in chars, t \in TextsOfLen(chars, n - 1)}

Texts(chars, maxlen) == UNION {TextsOfLen(chars, n) : n \in 0..maxlen}

OfferInit ==
    /\ PipelineIdle
    /\ pc = "construct"
    /\ total_stats = ZeroStats
    /\ dry_run = FALSE
    /\ \E product_name \in (Texts({"a", " "}, MaxTextLen) \cup {NoneValue}),
            offer_id \in (Texts({"a", " "}, MaxTextLen) \cup {NoneValue}),
          price \in ((0 - 1)..MaxPrice), regular_price \in ((0 - 1)..MaxPrice) :
          obs = [kwargs |-> [product_name |-> product_name, offer_id |-> offer_id,
                             price |-> price, regular_price |-> regular_price]]

\* one construction of a BonalyzeOffer
OfferConstruct ==
    /\ pc = "construct"
    /\ obs' = [kwargs |-> obs.kwargs, offer |-> BonalyzeOffer(obs.kwargs)]
    /\ pc' = "constructed"
    /\ UNCHANGED <<now, offers_table, run_start_time, dry_run, retailer_mapping, stores,
                   store_idx, total_stats, store_had_error, fetchVars, offers, syncVars,
                   exit_code>>

OfferSpec == OfferInit /\ [][(OfferConstruct)]_vars

\* ------------------------------------------ data_sync.py: _build_offer_row
\* the slug of the name is taken even when it is empty
ProductSlugWithoutFallback(product_name, offer_id) == Slugify(product_name)

\* data_sync.py 70-75
ProductSlug(product_name, offer_id) ==
    LET slug == Slugify(NormalizeWhitespace(product_name))
    IN IF slug # <<>> THEN slug ELSE <<"offer-">> \o offer_id

RowInit ==
    /\ PipelineIdle
    /\ pc = "row_offer"
    /\ total_stats = ZeroStats
    /\ dry_run = FALSE
    /\ \E product_name \in (Texts({"a", "A", " ", "!", "ä", "ß"}, MaxTextLen)),
            offer_id \in ({<<"1">>, <<"a", " ", "1">>}) :
          obs = [kwargs |-> [product_name |-> product_name, offer_id |-> offer_id,
                             price |-> 1, regular_price |-> 1]]

\* the offer that is handed to _build_offer_row is constructed
RowOffer ==
    /\ pc = "row_offer"
    /\ LET offer == BonalyzeOffer(obs.kwargs)
       IN /\ obs' = [kwargs |-> obs.kwargs, offer |-> offer]
          /\ pc' = IF offer.ok THEN "row_build" ELSE "row_no_offer"
    /\ UNCHANGED <<now, offers_table, run_start_time, dry_run, retailer_mapping, stores,
                   store_idx, total_stats, store_had_error, fetchVars, offers, syncVars,
                   exit_code>>

\* data_sync.py 52-86: the name and the slug of the row
RowBuild ==
    /\ pc = "row_build"
    /\ obs' = [kwargs |-> obs.kwargs, offer |-> obs.offer,
               row |-> [product_name |-> NormalizeWhitespace(obs.offer.product_name),
                        offer_id |-> obs.offer.offer_id,
                        product_slug |-> ProductSlug(obs.offer.product_name,
                                                     obs.offer.offer_id)]]
    /\ pc' = "row_built"
    /\ UNCHANGED <<now, offers_table, run_start_time, dry_run, retailer_mapping, stores,
                   store_idx, total_stats, store_had_error, fetchVars, offers, syncVars,
                   exit_code>>

RowSpec == RowInit /\ [][(RowOffer \/ RowBuild)]_vars

\* ---------------------------------------------- scraper.py: _parse_offer
\* a date field that is absent or null
NoDate == 0

\* an oldPrice that is absent or null
NoPrice == 0 - 1

RawItemShapes ==
    [kind : {"mapping"}, required : {"ok", "missing"},
     retailer : {"none", "indexed", "not_indexed", "unmarked"},
     validFrom : {NoDate, 1}, validTo : {NoDate, 15, 16},
     validityDates : ({<<>>, <<[from |-> 1, to |-> 15]>>, <<[from |-> 1, to |-> 16]>>,
             <<[from |-> 1, to |-> NoDate]>>}),
     id : {1}, price : {3}, oldPrice : {NoPrice, 2, 4}, sourceUrl : ({NoneValue, <<>>, <<" ">>,
             <<"u">>, <<"u", " ">>})]
    \cup {[kind |-> "not_mapping"]}

\* a well-formed item with a complete flat pair, as _valid_item of
\* tests/test_scraper_parse.py builds it
ValidItem ==
    [kind |-> "mapping", required |-> "ok", retailer |-> "indexed",
     validFrom |-> 1, validTo |-> 15, validityDates |-> <<>>,
     id |-> 1, price |-> 3, oldPrice |-> NoPrice, sourceUrl |-> NoneValue]

\* models.py 33-49 and 51-68: the fields the two models declare
MarktguruOfferFields ==
    {"id", "product", "retailer", "category", "price", "oldPrice", "referencePrice",
     "description", "quantity", "unit", "validityDates", "validFrom", "validTo", "images"}

BonalyzeOfferFields ==
    {"retailer", "product_name", "price", "regular_price", "unit", "amount", "currency",
     "valid_from", "valid_to", "image_url", "source_url", "offer_id", "embedding",
     "scraped_at", "raw_data"}

\* the fields _parse_offer reads from the MarktguruOffer and passes to BonalyzeOffer
ParseReadsFields == {"category", "categories"}

ParsePassesFields ==
    {"retailer", "product_name", "price", "regular_price", "unit", "amount", "currency",
     "category", "valid_from", "valid_to", "image_url", "source_url", "offer_id",
     "raw_data"}

\* models.py 20-22: from and to are required datetimes of a validityDates entry
ValidatesAsValidityDate(entry) == entry.from # NoDate /\ entry.to # NoDate

\* MarktguruOffer(**item): pydantic validation of the item
ValidatesAsMarktguruOffer(item) ==
    /\ item.required = "ok"
    /\ \A i \in DOMAIN item.validityDates : ValidatesAsValidityDate(item.validityDates[i])

\* scraper.py 491-492, models.py 24-27: indexOffer defaults to False, so a
\* retailer block that does not carry the field ("unmarked") is rejected too
IndexRejected(item) == item.retailer \in {"not_indexed", "unmarked"}

\* the first entry of the list is used when the flat pair is complete
ResolveWindowListFirst(item) ==
    IF item.validityDates # <<>>
    THEN [from |-> item.validityDates[1].from, to |-> item.validityDates[1].to]
    ELSE [from |-> item.validFrom, to |-> item.validTo]

\* scraper.py 497-507: flat fields first, then the first entry of the list
ResolveWindow(item) ==
    IF item.validFrom # NoDate /\ item.validTo # NoDate
    THEN [from |-> item.validFrom, to |-> item.validTo]
    ELSE IF item.validityDates # <<>>
    THEN [from |-> item.validityDates[1].from, to |-> item.validityDates[1].to]
    ELSE [from |-> NoDate, to |-> NoDate]

\* the last day of the window is not counted
DurationDaysExclusive(window) == window.to - window.from - 1

\* scraper.py 510: (valid_to - valid_from).days
DurationDays(window) == window.to - window.from

\* scraper.py 526-528
RegularPriceOf(item) == IF item.oldPrice # NoPrice THEN item.oldPrice ELSE item.price

\* scraper.py 357-382, for a payload whose only link field is sourceUrl: the
\* first candidate that is a text and is not blank is returned in normalized
\* form, else the link is built from the retailer and the offer id
BuildSourceUrl(item, retailer, offer_id) ==
    IF item.sourceUrl # NoneValue /\ NormalizeWhitespace(item.sourceUrl) # <<>>
    THEN [kind |-> "payload", text |-> NormalizeWhitespace(item.sourceUrl)]
    ELSE [kind |-> "synthesized", retailer |-> retailer, offer_id |-> offer_id]

ParseNull(why) == [result |-> "null", why |-> why]

\* scraper.py 482-580.  why tells what the call logs: a filter returns None
\* silently, the except branch logs the exception
ParseItem(item, retailer) ==
    IF item.kind # "mapping" THEN ([result |-> "raised", why |-> "exception"])
    ELSE IF ~ValidatesAsMarktguruOffer(item) THEN ParseNull("exception")
    ELSE IF IndexRejected(item) THEN ParseNull("not_indexed")
    ELSE LET window == ResolveWindow(item)
         IN IF window.from = NoDate \/ window.to = NoDate THEN ParseNull("no_validity")
            ELSE IF DurationDays(window) > MAX_DURATION_DAYS THEN ParseNull("duration")
            ELSE IF ~(ParseReadsFields \subseteq MarktguruOfferFields)
            THEN ParseNull("exception")
            ELSE IF ~(ParsePassesFields \subseteq BonalyzeOfferFields)
            THEN ParseNull("exception")
            ELSE [result |-> "offer", why |-> "none", retailer |-> retailer,
                  offer_id |-> item.id, price |-> item.price,
                  regular_price |-> ClampRegularPrice(RegularPriceOf(item), item.price),
                  source_url |-> BuildSourceUrl(item, retailer, item.id),
                  valid_from |-> window.from, valid_to |-> window.to]

ParseInit ==
    /\ now = 1
    /\ offers_table = {}
    /\ run_start_time = 0
    /\ dry_run = FALSE
    /\ retailer_mapping = {}
    /\ stores = <<"edeka">>
    /\ store_idx = 1
    /\ total_stats = ZeroStats
    /\ store_had_error = FALSE
    /\ all_offers = <<>>
    /\ offset = 0
    /\ total_results = NoTotal
    /\ req_attempt = 1
    /\ req_exc = NoExc
    /\ sync_attempt = 1
    /\ sync_exc = NoExc
    /\ exit_code = NoExit
    /\ pc = "parse"
    /\ \E item \in RawItemShapes : offers = <<item, ValidItem>>
    /\ obs = [calls |-> 0]

\* scraper.py 169-174: one item of the page goes through _parse_offer; an
\* exception that leaves it reaches the except of fetch_offers, which breaks
ParseNextItem ==
    /\ pc = "parse"
    /\ offers # <<>>
    /\ LET parsed == ParseItem(Head(offers), CurStore)
       IN /\ obs' = [item |-> Head(offers), parsed |-> parsed, calls |-> obs.calls + 1]
          /\ all_offers' = IF parsed.result = "offer" THEN Append(all_offers, parsed)
                           ELSE all_offers
          /\ IF parsed.result = "raised"
             THEN pc' = "parse_aborted" /\ UNCHANGED offers
             ELSE pc' = "parse" /\ offers' = Tail(offers)
    /\ UNCHANGED <<now, offers_table, run_start_time, dry_run, retailer_mapping, stores,
                   store_idx, total_stats, store_had_error, offset, total_results,
                   req_attempt, req_exc, syncVars, exit_code>>

\* scraper.py 169: the loop over the page's items ends
ParsePageDone ==
    /\ pc = "parse"
    /\ offers = <<>>
    /\ pc' = "parse_done"
    /\ UNCHANGED <<now, offers_table, run_start_time, dry_run, retailer_mapping, stores,
                   store_idx, total_stats, store_had_error, fetchVars, offers, syncVars,
                   exit_code, obs>>

ParseSpec == ParseInit /\ [][(ParseNextItem \/ ParsePageDone)]_vars

\* --------------------------------- scraper.py: the global category index
\* the flag is never seen as set
IndexLoadedNever(index) == FALSE

\* scraper.py 208: if self._global_category_index_loaded
IndexLoaded(index) == index.loaded

IndexInit ==
    /\ now = 1
    /\ offers_table = {}
    /\ run_start_time = 0
    /\ dry_run = FALSE
    /\ retailer_mapping = {}
    /\ stores = (<<"kaufland", "aldi-sued", "edeka">>)
    /\ store_idx = 1
    /\ total_stats = ZeroStats
    /\ store_had_error = FALSE
    /\ all_offers = <<>>
    /\ offset = 0
    /\ total_results = NoTotal
    /\ req_attempt = 1
    /\ req_exc = NoExc
    /\ sync_attempt = 1
    /\ sync_exc = NoExc
    /\ exit_code = NoExit
    /\ pc = "enrich"
    /\ offers = <<>>
    /\ \E categorized \in SUBSET (1..MaxOfferId) :
          obs = ([loaded |-> FALSE, by_offer_id |-> {}, scans |-> 0, builds |-> 0, lookups |-> 0,
                  scan_store |-> 0]) @@ [categorized |-> categorized]

IndexFrame ==
    UNCHANGED <<now, offers_table, run_start_time, dry_run, retailer_mapping, stores,
                total_stats, store_had_error, all_offers, total_results, req_attempt,
                req_exc, offers, syncVars, exit_code>>

\* the enrichment call of this retailer is over; fetch_offers returns and the
\* loop of main_async goes to the next retailer
EnrichReturns ==
    /\ store_idx' = store_idx + 1
    /\ pc' = IF store_idx < Len(stores) THEN "enrich" ELSE "enrich_done"

\* scraper.py 281-286: no offers, or no offer without a category
EnrichNothingMissing ==
    /\ pc = "enrich"
    /\ EnrichReturns
    /\ UNCHANGED <<offset, obs>>
    /\ IndexFrame

\* scraper.py 288-289 and 208-209: the index is loaded, no scan
EnrichIndexLoaded ==
    /\ pc = "enrich"
    /\ IndexLoaded(obs)
    /\ pc' = "lookup"
    /\ UNCHANGED <<store_idx, offset, obs>>
    /\ IndexFrame

\* scraper.py 211-216: a scan of the global listing starts
EnrichScanStarts ==
    /\ pc = "enrich"
    /\ ~IndexLoaded(obs)
    /\ obs' = [obs EXCEPT !.scans = @ + 1, !.scan_store = store_idx]
    /\ offset' = 0
    /\ pc' = "scan"
    /\ UNCHANGED store_idx
    /\ IndexFrame

\* scraper.py 218-271: one page of the listing is read and indexed; after the
\* last page the flag is set
ScanPage ==
    /\ pc = "scan"
    /\ LET ids == {id \in (1..MaxOfferId) : id > offset /\ id <= offset + PageSize}
           by_offer_id == obs.by_offer_id \cup (ids \cap obs.categorized)
           last == offset + PageSize >= MaxOfferId
       IN /\ obs' = [obs EXCEPT !.by_offer_id = by_offer_id,
                                !.loaded = last,
                                !.builds = IF last THEN @ + 1 ELSE @]
          /\ offset' = offset + PageSize
          /\ pc' = IF last THEN "lookup" ELSE "scan"
    /\ UNCHANGED store_idx
    /\ IndexFrame

\* scraper.py 219 and 290-292: the request of a page raises when its retries
\* are used up; the enrichment of this retailer is skipped, the flag stays
\* unset and the entries indexed so far stay
ScanPageRaises ==
    /\ pc = "scan"
    /\ EnrichReturns
    /\ UNCHANGED <<offset, obs>>
    /\ IndexFrame

\* scraper.py 294-346: the offers of this retailer are looked up in the index
EnrichLookup ==
    /\ pc = "lookup"
    /\ obs' = [obs EXCEPT !.lookups = @ + 1]
    /\ EnrichReturns
    /\ UNCHANGED offset
    /\ IndexFrame

IndexSpec == IndexInit /\ [][(\/ EnrichNothingMissing \/ EnrichIndexLoaded \/ EnrichScanStarts
        \/ ScanPage \/ ScanPageRaises \/ EnrichLookup)]_vars

\* ---------------------------------------- embedder.py: get_embeddings_batch
\* embedder.py 204-233: the entry _generate_individual_fallback appends for a
\* text, [] (length 0) unless the call gave a valid vector
IndividualFallback(outcome) == IF IsValidEmbedding(outcome) THEN outcome ELSE 0

\* obs holds the locals of a call (results, missing, embeddings, the batch
\* index i, the model) and what the provider was asked and gave: item_calls
\* are the texts sent in a per-item call, obtained the texts for which a call
\* gave a valid vector, batch_failed the texts of batches whose call failed,
\* not_found the texts left without a call after a 404

EmbedInit ==
    /\ PipelineIdle
    /\ pc = "embed_cache"
    /\ total_stats = ZeroStats
    /\ dry_run = FALSE
    /\ obs = ([results |-> <<>>, missing |-> <<>>, embeddings |-> <<>>, i |-> 1,
            model |-> "primary", cache_writes |-> {}, item_calls |-> {}, obtained |-> {},
            batch_failed |-> {}, not_found |-> {}, cache_error |-> FALSE])

EmbedFrame ==
    UNCHANGED <<now, offers_table, run_start_time, dry_run, retailer_mapping, stores,
                store_idx, total_stats, store_had_error, fetchVars, offers, syncVars,
                exit_code>>

\* the sequence of the elements of a set of texts, in ascending order
RECURSIVE SeqOfTexts(_)
SeqOfTexts(ts) ==
    IF ts = {} THEN <<>>
    ELSE LET least == CHOOSE t \in ts : \A u \in ts : t <= u
         IN <<least>> \o SeqOfTexts(ts \ {least})

\* embedder.py 258-279: the cache rows are read, valid vectors go to results,
\* the other texts are missing
EmbedCacheRead(rows) ==
    LET results == [t \in {u \in DOMAIN rows : IsValidEmbedding(rows[u])} |-> rows[t]]
        missing == SeqOfTexts((1..MaxTexts) \ DOMAIN results)
    IN /\ obs' = [obs EXCEPT !.results = results, !.missing = missing]
       /\ pc' = IF missing = <<>> THEN "embed_done" ELSE "embed_batch"

\* embedder.py 258-268: the lookup answers with rows for some of the texts
EmbedCacheLookup ==
    /\ pc = "embed_cache"
    /\ \E cached \in SUBSET (1..MaxTexts) : \E rows \in [cached -> RawVectors] :
          EmbedCacheRead(rows)
    /\ EmbedFrame

\* embedder.py 270-271: the lookup raises, the exception is logged
EmbedCacheLookupRaises ==
    /\ pc = "embed_cache"
    /\ EmbedCacheRead(<<>>)
    /\ EmbedFrame

\* embedder.py 117-118: the batch that starts at obs.i
EmbedBatch ==
    SubSeq(obs.missing, obs.i,
           IF obs.i + EMBEDDING_BATCH_SIZE - 1 <= Len(obs.missing)
           THEN obs.i + EMBEDDING_BATCH_SIZE - 1 ELSE Len(obs.missing))

\* embedder.py 117: the loop goes to the next batch or ends
EmbedNextBatch ==
    IF obs.i + EMBEDDING_BATCH_SIZE <= Len(obs.missing) THEN "embed_batch" ELSE "embed_store"

\* embedder.py 120-145 (and 153-179 for the fallback model): the batch call
\* answers with one entry per text; an entry that is not valid is replaced by
\* the per-item call of its text
EmbedBatchAligned ==
    /\ pc = "embed_batch"
    /\ LET batch == EmbedBatch
       IN \E values \in [DOMAIN batch -> RawVectors],
               single \in [DOMAIN batch -> (RawVectors \cup {NoEmbedding})] :
             LET entries == [k \in DOMAIN batch |->
                                [text |-> batch[k],
                                 values |-> IF IsValidEmbedding(values[k]) THEN values[k]
                                            ELSE IndividualFallback(single[k])]]
                 retried == {batch[k] : k \in {j \in DOMAIN batch : ~IsValidEmbedding(values[j])}}
                 valid == {batch[k] : k \in {j \in DOMAIN batch :
                              IsValidEmbedding(values[j]) \/ IsValidEmbedding(single[j])}}
             IN obs' = [obs EXCEPT !.embeddings = @ \o entries,
                                   !.item_calls = @ \cup retried,
                                   !.obtained = @ \cup valid,
                                   !.i = @ + EMBEDDING_BATCH_SIZE]
    /\ pc' = EmbedNextBatch
    /\ EmbedFrame

\* a text whose per-item call gave no valid vector gets no entry at all
EmbedFallbackOmitsFailed(batch, single) ==
    LET ok == SelectSeq([k \in DOMAIN batch |-> k], LAMBDA k : IsValidEmbedding(single[k]))
    IN [j \in DOMAIN ok |-> [text |-> batch[ok[j]], values |-> single[ok[j]]]]

\* only the first text of the batch gets a per-item call, the others get []
EmbedFallbackFirstOnly(batch, single) ==
    [k \in DOMAIN batch |->
        [text |-> batch[k], values |-> IF k = 1 THEN IndividualFallback(single[k]) ELSE 0]]

\* embedder.py 204-233: one per-item call for every text of the batch
EmbedFallback(batch, single) ==
    [k \in DOMAIN batch |-> [text |-> batch[k], values |-> IndividualFallback(single[k])]]

\* embedder.py 127-133 and 196-199 (160-166 and 180-187 for the fallback
\* model): the batch call answers with no entries or with another number of
\* entries, or it raises an error that is no 404; every text of the batch gets
\* a per-item call
EmbedBatchFallsBack ==
    /\ pc = "embed_batch"
    /\ LET batch == EmbedBatch
       IN \E single \in [DOMAIN batch -> (RawVectors \cup {NoEmbedding})] :
             LET entries == EmbedFallback(batch, single)
                 valid == {batch[k] : k \in {j \in DOMAIN batch : IsValidEmbedding(single[j])}}
             IN obs' = [obs EXCEPT !.embeddings = @ \o entries,
                                   !.item_calls = @ \cup ({entries[k].text : k \in DOMAIN entries}),
                                   !.obtained = @ \cup valid,
                                   !.batch_failed = @ \cup ({entries[k].text : k \in DOMAIN entries}),
                                   !.i = @ + EMBEDDING_BATCH_SIZE]
    /\ pc' = EmbedNextBatch
    /\ EmbedFrame

\* embedder.py 147-157 and 91-103: the batch call raises a 404, the fallback
\* model is listed and becomes the model; the batch is sent again
EmbedBatchNotFoundSwitch ==
    /\ pc = "embed_batch"
    /\ obs.model = "primary"
    /\ obs' = [obs EXCEPT !.model = "fallback"]
    /\ pc' = "embed_batch"
    /\ EmbedFrame

\* embedder.py 147-152 and 188-194: the batch call raises a 404 and there is
\* no other model to switch to (or the fallback model raised the 404): every
\* text without an entry gets [] and the loop ends
EmbedBatchNotFoundEnds ==
    /\ pc = "embed_batch"
    /\ LET rest == SubSeq(obs.missing, Len(obs.embeddings) + 1, Len(obs.missing))
           entries == [k \in DOMAIN rest |-> [text |-> rest[k], values |-> 0]]
       IN obs' = [obs EXCEPT !.embeddings = @ \o entries,
                             !.batch_failed = @ \cup {EmbedBatch[k] : k \in DOMAIN EmbedBatch},
                             !.not_found = {rest[k] : k \in DOMAIN rest}]
    /\ pc' = "embed_store"
    /\ EmbedFrame

\* the vectors that go to results and to the cache: all of them
EmbedKeptAll(missing, embeddings) == DOMAIN missing

\* embedder.py 288-294: the positions whose entry is a valid vector
EmbedKept(missing, embeddings) ==
    {k \in DOMAIN missing : k \in DOMAIN embeddings /\ IsValidEmbedding(embeddings[k].values)}

\* embedder.py 280-311: results and the cache rows of the generated vectors;
\* an exception of the cache upsert is logged
EmbedStore ==
    /\ pc = "embed_store"
    /\ LET kept == EmbedKept(obs.missing, obs.embeddings)
           generated == [t \in {obs.missing[k] : k \in kept} |->
                            obs.embeddings[CHOOSE k \in kept : obs.missing[k] = t].values]
           upsert_data == {[name |-> t, embedding |-> generated[t]] : t \in DOMAIN generated}
       IN \E cache_error \in BOOLEAN :
             obs' = [obs EXCEPT !.results = @ @@ generated,
                                !.cache_writes = IF cache_error THEN {} ELSE upsert_data,
                                !.cache_error = cache_error /\ upsert_data # {}]
    /\ pc' = "embed_done"
    /\ EmbedFrame

EmbedNext ==
    \/ EmbedCacheLookup
    \/ EmbedCacheLookupRaises
    \/ EmbedBatchAligned
    \/ EmbedBatchFallsBack
    \/ EmbedBatchNotFoundSwitch
    \/ EmbedBatchNotFoundEnds
    \/ EmbedStore

EmbedSpec == EmbedInit /\ [][EmbedNext]_vars

EmbedFairSpec == EmbedSpec /\ WF_vars(EmbedNext)

\* ------------------------------------------- scraper.py: the classifier
\* scraper.py 29-32
DRINK_ALCOHOL_KEYWORDS ==
    <<
     <<"b", "i", "e", "r">>, <<"w", "e", "i", "n">>, <<"s", "e", "k", "t">>,
     <<"p", "r", "o", "s", "e", "c", "c", "o">>,
     <<"c", "h", "a", "m", "p", "a", "g", "n", "e", "r">>, <<"v", "o", "d", "k", "a">>,
     <<"r", "u", "m">>, <<"g", "i", "n">>, <<"w", "h", "i", "s", "k", "y">>,
     <<"w", "h", "i", "s", "k", "e", "y">>, <<"l", "i", "k", "o", "e", "r">>,
     <<"l", "i", "k", "o", "r">>, <<"a", "p", "e", "r", "i", "t", "i", "f">>,
     <<"s", "p", "i", "r", "i", "t", "u", "o", "s", "e">>,
     <<"a", "l", "k", "o", "h", "o", "l">>, <<"r", "a", "d", "l", "e", "r">>
    >>

\* scraper.py 33-36
DRINK_NON_ALCOHOL_KEYWORDS ==
    <<
     <<"w", "a", "s", "s", "e", "r">>, <<"s", "a", "f", "t">>,
     <<"s", "c", "h", "o", "r", "l", "e">>, <<"l", "i", "m", "o", "n", "a", "d", "e">>,
     <<"c", "o", "l", "a">>, <<"f", "a", "n", "t", "a">>, <<"s", "p", "r", "i", "t", "e">>,
     <<"t", "e", "e">>, <<"k", "a", "f", "f", "e", "e">>, <<"e", "i", "s", "t", "e", "e">>,
     <<"e", "n", "e", "r", "g", "y">>, <<"s", "m", "o", "o", "t", "h", "i", "e">>,
     <<"k", "a", "k", "a", "o">>, <<"m", "i", "l", "c", "h", "d", "r", "i", "n", "k">>,
     <<"s", "o", "f", "t", "d", "r", "i", "n", "k">>,
     <<"a", "l", "k", "o", "h", "o", "l", "f", "r", "e", "i">>
    >>

\* scraper.py 50-52
BASE_FOOD_KEYWORDS ==
    <<
     <<"l", "e", "b", "e", "n", "s", "m", "i", "t", "t", "e", "l">>,
     <<"e", "s", "s", "e", "n">>, <<"n", "a", "h", "r", "u", "n", "g">>,
     <<"n", "a", "e", "h", "r">>, <<"g", "e", "n", "u", "s", "s">>,
     <<"f", "e", "i", "n", "k", "o", "s", "t">>
    >>

\* scraper.py 37-49
FOOD_SUBCATEGORY_RULES ==
    <<
     [label |-> "Lebensmittel > Konserven & Haltbares",
      keywords |-> <<
          <<"k", "o", "n", "s", "e", "r", "v", "e">>, <<"d", "o", "s", "e">>,
          <<"e", "i", "n", "g", "e", "m", "a", "c", "h", "t">>,
          <<"h", "a", "l", "t", "b", "a", "r">>, <<"v", "o", "r", "r", "a", "t">>,
          <<"g", "l", "a", "s">>, <<"p", "o", "l", "p", "a">>,
          <<"p", "a", "s", "s", "i", "e", "r", "t">>,
          <<"k", "o", "n", "f", "i", "t", "u", "e", "r", "e">>,
          <<"m", "a", "r", "m", "e", "l", "a", "d", "e">>, <<"h", "o", "n", "i", "g">>
      >>],
     [label |-> "Lebensmittel > Gemüse",
      keywords |-> <<
          <<"g", "e", "m", "u", "e", "s", "e">>, <<"g", "e", "m", "u", "s", "e">>,
          <<"s", "a", "l", "a", "t">>, <<"z", "w", "i", "e", "b", "e", "l">>,
          <<"k", "a", "r", "t", "o", "f", "f", "e", "l">>,
          <<"p", "a", "p", "r", "i", "k", "a">>, <<"t", "o", "m", "a", "t", "e">>,
          <<"t", "o", "m", "a", "t", "e", "n">>, <<"g", "u", "r", "k", "e">>,
          <<"g", "u", "r", "k", "e", "n">>, <<"b", "r", "o", "c", "c", "o", "l", "i">>,
          <<"b", "r", "o", "k", "k", "o", "l", "i">>, <<"k", "a", "r", "o", "t", "t", "e">>,
          <<"e", "r", "b", "s", "e">>,
          <<"z", "u", "c", "k", "e", "r", "e", "r", "b", "s", "e">>,
          <<"s", "p", "i", "n", "a", "t">>, <<"k", "o", "h", "l">>,
          <<"l", "a", "u", "c", "h">>, <<"z", "u", "c", "c", "h", "i", "n", "i">>,
          <<"a", "v", "o", "c", "a", "d", "o">>, <<"o", "l", "i", "v", "e">>,
          <<"o", "l", "i", "v", "e", "n">>
      >>],
     [label |-> "Lebensmittel > Obst",
      keywords |-> <<
          <<"o", "b", "s", "t">>, <<"a", "p", "f", "e", "l">>,
          <<"b", "a", "n", "a", "n", "e">>, <<"t", "r", "a", "u", "b", "e">>,
          <<"b", "e", "e", "r", "e">>, <<"o", "r", "a", "n", "g", "e">>,
          <<"z", "i", "t", "r", "o", "n", "e">>, <<"b", "i", "r", "n", "e">>,
          <<"m", "a", "n", "d", "a", "r", "i", "n", "e">>, <<"k", "i", "w", "i">>,
          <<"p", "o", "m", "e", "l", "o">>, <<"a", "n", "a", "n", "a", "s">>,
          <<"m", "a", "n", "g", "o">>
      >>],
     [label |-> "Lebensmittel > Tiefkühl",
      keywords |-> <<
          <<"t", "k">>, <<"t", "i", "e", "f", "k", "u", "e", "h", "l">>,
          <<"t", "i", "e", "f", "k", "u", "h", "l">>, <<"f", "r", "o", "z", "e", "n">>,
          <<"t", "i", "e", "f", "k", "ü", "h", "l">>, <<"e", "i", "s">>,
          <<"p", "o", "m", "m", "e", "s">>
      >>],
     [label |-> "Lebensmittel > Milchprodukte & Eier",
      keywords |-> <<
          <<"m", "i", "l", "c", "h">>, <<"m", "o", "l", "k", "e", "r", "e", "i">>,
          <<"j", "o", "g", "h", "u", "r", "t">>, <<"q", "u", "a", "r", "k">>,
          <<"k", "a", "e", "s", "e">>, <<"k", "a", "s", "e">>,
          <<"b", "u", "t", "t", "e", "r">>, <<"s", "a", "h", "n", "e">>,
          <<"r", "a", "h", "m">>, <<"e", "i", "e", "r">>,
          <<"f", "r", "i", "s", "c", "h", "k", "a", "e", "s", "e">>
      >>],
     [label |-> "Lebensmittel > Fleisch, Wurst & Fisch",
      keywords |-> <<
          <<"f", "l", "e", "i", "s", "c", "h">>, <<"w", "u", "r", "s", "t">>,
          <<"s", "c", "h", "w", "e", "i", "n">>, <<"r", "i", "n", "d">>,
          <<"h", "u", "h", "n">>, <<"h", "a", "e", "h", "n", "c", "h", "e", "n">>,
          <<"g", "e", "f", "l", "u", "e", "g", "e", "l">>,
          <<"g", "e", "f", "l", "u", "g", "e", "l">>, <<"f", "i", "s", "c", "h">>,
          <<"l", "a", "c", "h", "s">>, <<"g", "a", "r", "n", "e", "l", "e", "n">>,
          <<"b", "a", "c", "o", "n">>, <<"s", "a", "l", "a", "m", "i">>,
          <<"k", "a", "b", "a", "n", "o", "s">>,
          <<"w", "u", "e", "r", "s", "t", "c", "h", "e", "n">>,
          <<"w", "u", "r", "s", "t", "c", "h", "e", "n">>
      >>],
     [label |-> "Lebensmittel > Brot & Backwaren",
      keywords |-> <<
          <<"b", "r", "o", "t">>, <<"b", "r", "o", "e", "t">>,
          <<"b", "r", "o", "t", "c", "h", "e", "n">>, <<"b", "a", "c", "k">>,
          <<"c", "r", "o", "i", "s", "s", "a", "n", "t">>, <<"t", "o", "a", "s", "t">>,
          <<"b", "a", "g", "u", "e", "t", "t", "e">>, <<"k", "u", "c", "h", "e", "n">>,
          <<"b", "r", "o", "e", "t", "c", "h", "e", "n">>, <<"z", "o", "p", "f">>,
          <<"s", "c", "h", "n", "e", "c", "k", "e">>
      >>],
     [label |-> "Lebensmittel > Süßes & Snacks",
      keywords |-> <<
          <<"s", "n", "a", "c", "k">>, <<"s", "c", "h", "o", "k", "o", "l", "a", "d", "e">>,
          <<"k", "e", "k", "s">>, <<"c", "h", "i", "p", "s">>,
          <<"p", "r", "a", "l", "i", "n", "e">>, <<"b", "o", "n", "b", "o", "n">>,
          <<"r", "i", "e", "g", "e", "l">>, <<"s", "u", "e", "s">>, <<"s", "u", "s", "s">>,
          <<"p", "i", "c", "k", " ", "u", "p">>,
          <<"g", "u", "m", "m", "i", "b", "a", "e", "r">>,
          <<"g", "u", "m", "m", "i", "b", "a", "r">>
      >>],
     [label |-> "Lebensmittel > Fertiggerichte",
      keywords |-> <<
          <<"f", "e", "r", "t", "i", "g">>, <<"i", "n", "s", "t", "a", "n", "t">>,
          <<"p", "i", "z", "z", "a">>, <<"l", "a", "s", "a", "g", "n", "e">>,
          <<"e", "i", "n", "t", "o", "p", "f">>, <<"s", "u", "p", "p", "e">>,
          <<"m", "e", "n", "u", "e">>, <<"m", "e", "n", "u">>,
          <<"m", "i", "c", "r", "o", "w", "a", "v", "e">>,
          <<"k", "a", "r", "t", "o", "f", "f", "e", "l", "g", "e", "r", "i", "c", "h", "t">>,
          <<"a", "i", "r", "f", "r", "y", "e", "r">>
      >>],
     [label |-> "Lebensmittel > Gewürze, Öle & Saucen",
      keywords |-> <<
          <<"g", "e", "w", "u", "e", "r", "z">>, <<"g", "e", "w", "u", "r", "z">>,
          <<"w", "u", "e", "r", "z", "e">>, <<"w", "u", "r", "z", "p", "a", "s", "t", "e">>,
          <<"f", "i", "x">>, <<"s", "a", "u", "c", "e">>, <<"p", "e", "s", "t", "o">>,
          <<"o", "e", "l">>, <<"o", "l">>, <<"o", "l", "i", "v", "e", "n", "o", "e", "l">>,
          <<"r", "a", "p", "s", "o", "e", "l">>, <<"e", "s", "s", "i", "g">>
      >>],
     [label |-> "Lebensmittel > Grundnahrungsmittel",
      keywords |-> <<
          <<"n", "u", "d", "e", "l">>, <<"r", "e", "i", "s">>, <<"m", "e", "h", "l">>,
          <<"z", "u", "c", "k", "e", "r">>,
          <<"h", "a", "f", "e", "r", "f", "l", "o", "c", "k", "e", "n">>,
          <<"l", "i", "n", "s", "e", "n">>, <<"b", "o", "h", "n", "e", "n">>,
          <<"g", "r", "i", "e", "s">>, <<"h", "a", "f", "e", "r">>
      >>]
    >>

\* scraper.py 53-64
OTHER_TOP_CATEGORY_RULES ==
    <<
     [label |-> "Drogerie",
      keywords |-> <<
          <<"d", "r", "o", "g", "e", "r", "i", "e">>, <<"h", "y", "g", "i", "e", "n", "e">>,
          <<"k", "o", "s", "m", "e", "t", "i", "k">>, <<"p", "f", "l", "e", "g", "e">>,
          <<"d", "e", "o">>, <<"d", "u", "s", "c", "h">>,
          <<"s", "h", "a", "m", "p", "o", "o">>,
          <<"z", "a", "h", "n", "p", "a", "s", "t", "a">>,
          <<"s", "l", "i", "p", "e", "i", "n", "l", "a", "g", "e", "n">>,
          <<"t", "a", "m", "p", "o", "n">>, <<"c", "r", "e", "m", "e">>,
          <<"b", "o", "d", "y">>, <<"m", "a", "k", "e", "u", "p">>
      >>],
     [label |-> "Haushalt",
      keywords |-> <<
          <<"h", "a", "u", "s", "h", "a", "l", "t">>,
          <<"r", "e", "i", "n", "i", "g", "u", "n", "g">>,
          <<"r", "e", "i", "n", "i", "g", "e", "r">>,
          <<"g", "e", "s", "c", "h", "i", "r", "r">>, <<"s", "p", "u", "e", "l">>,
          <<"s", "p", "u", "l">>, <<"p", "u", "t", "z">>,
          <<"w", "a", "s", "c", "h", "m", "i", "t", "t", "e", "l">>,
          <<"k", "u", "e", "c", "h", "e">>, <<"k", "u", "c", "h", "e">>,
          <<"b", "e", "h", "a", "e", "l", "t", "e", "r">>,
          <<"b", "e", "h", "a", "l", "t", "e", "r">>, <<"m", "u", "e", "l", "l">>,
          <<"m", "u", "l", "l">>, <<"s", "t", "a", "u", "b">>,
          <<"w", "i", "s", "c", "h", "e", "r">>, <<"e", "i", "m", "e", "r">>,
          <<"t", "o", "i", "l", "e", "t", "t", "e", "n", "p", "a", "p", "i", "e", "r">>,
          <<"t", "a", "s", "c", "h", "e", "n", "t", "u", "e", "c", "h", "e", "r">>,
          <<"t", "a", "s", "c", "h", "e", "n", "t", "u", "c", "h", "e", "r">>,
          <<"l", "u", "f", "t", "e", "r", "f", "r", "i", "s", "c", "h", "e", "r">>,
          <<"d", "u", "f", "t">>
      >>],
     [label |-> "Tierbedarf",
      keywords |-> <<
          <<"t", "i", "e", "r">>, <<"h", "u", "n", "d">>, <<"k", "a", "t", "z", "e">>,
          <<"h", "a", "u", "s", "t", "i", "e", "r">>, <<"f", "u", "t", "t", "e", "r">>
      >>],
     [label |-> "Baby & Kind",
      keywords |-> <<
          <<"b", "a", "b", "y">>, <<"k", "i", "n", "d">>, <<"w", "i", "n", "d", "e", "l">>,
          <<"n", "u", "c", "k", "e", "l">>, <<"k", "i", "n", "d", "e", "r">>
      >>],
     [label |-> "Gesundheit",
      keywords |-> <<
          <<"g", "e", "s", "u", "n", "d", "h", "e", "i", "t">>,
          <<"m", "e", "d", "i", "z", "i", "n">>, <<"a", "p", "o", "t", "h", "e", "k", "e">>,
          <<"v", "i", "t", "a", "m", "i", "n">>, <<"p", "f", "l", "a", "s", "t", "e", "r">>
      >>],
     [label |-> "Baumarkt & Garten",
      keywords |-> <<
          <<"b", "a", "u", "m", "a", "r", "k", "t">>, <<"g", "a", "r", "t", "e", "n">>,
          <<"b", "o", "h", "r">>, <<"w", "e", "r", "k", "z", "e", "u", "g">>,
          <<"s", "c", "h", "r", "a", "u", "b">>, <<"s", "a", "e", "g", "e">>,
          <<"s", "a", "g", "e">>, <<"r", "a", "s", "e", "n">>,
          <<"p", "f", "l", "a", "n", "z", "e">>, <<"d", "u", "e", "n", "g", "e", "r">>,
          <<"d", "u", "n", "g", "e", "r">>
      >>],
     [label |-> "Elektronik",
      keywords |-> <<
          <<"e", "l", "e", "k", "t", "r", "o", "n", "i", "k">>, <<"a", "k", "k", "u">>,
          <<"b", "a", "t", "t", "e", "r", "i", "e">>, <<"r", "o", "b", "o", "t", "e", "r">>,
          <<"m", "u", "l", "t", "i", "m", "e", "t", "e", "r">>, <<"l", "e", "d">>,
          <<"t", "v">>, <<"s", "m", "a", "r", "t", "p", "h", "o", "n", "e">>,
          <<"c", "o", "m", "p", "u", "t", "e", "r">>
      >>],
     [label |-> "Mode",
      keywords |-> <<
          <<"m", "o", "d", "e">>, <<"s", "o", "c", "k", "e", "n">>,
          <<"h", "o", "o", "d", "i", "e">>, <<"j", "a", "c", "k", "e">>,
          <<"s", "h", "i", "r", "t">>, <<"h", "o", "s", "e">>, <<"s", "c", "h", "u", "h">>
      >>],
     [label |-> "Wohnen",
      keywords |-> <<
          <<"w", "o", "h", "n", "e", "n">>, <<"s", "o", "f", "a">>,
          <<"m", "o", "e", "b", "e", "l">>, <<"m", "o", "b", "e", "l">>,
          <<"b", "e", "t", "t">>, <<"l", "a", "m", "p", "e">>, <<"s", "t", "u", "h", "l">>
      >>],
     [label |-> "Freizeit & Sport",
      keywords |-> <<
          <<"s", "p", "o", "r", "t">>, <<"f", "i", "t", "n", "e", "s", "s">>,
          <<"o", "u", "t", "d", "o", "o", "r">>, <<"w", "a", "n", "d", "e", "r", "n">>,
          <<"f", "r", "e", "i", "z", "e", "i", "t">>, <<"f", "a", "h", "r", "r", "a", "d">>
      >>]
    >>

RECURSIVE ReplaceUmlauts(_)
\* scraper.py 410-411: the four replacements
ReplaceUmlauts(text) ==
    IF text = <<>> THEN <<>>
    ELSE (CASE Head(text) = "ä" -> <<"a", "e">>
            [] Head(text) = "ö" -> <<"o", "e">>
            [] Head(text) = "ü" -> <<"u", "e">>
            [] Head(text) = "ß" -> <<"s", "s">>
            [] OTHER -> <<Head(text)>>) \o ReplaceUmlauts(Tail(text))

\* scraper.py 414-419: every character that is no lower-case letter or digit
\* becomes a blank, blanks are collapsed and trimmed
NameLookupKey(text) ==
    LET normalized == (ReplaceUmlauts(Lower(NormalizeWhitespace(text))))
        blanked == [i \in DOMAIN normalized |->
                       IF normalized[i] \in ({ "a", "b", "c", "d", "e", "f", "g", "h", "i", "j",
                               "k", "l", "m", "n", "o", "p", "q", "r", "s", "t", "u", "v", "w",
                               "x", "y", "z", "0", "1", "2", "3", "4", "5", "6", "7", "8",
                               "9" }) THEN normalized[i] ELSE " "]
    IN Strip(CollapseWhitespace(blanked))

RECURSIVE SplitWords(_, _)
\* the maximal runs of characters other than blanks, word being the run read so far
SplitWords(text, word) ==
    IF text = <<>> THEN (IF word = <<>> THEN {} ELSE {word})
    ELSE IF Head(text) = " "
    THEN (IF word = <<>> THEN {} ELSE {word}) \cup SplitWords(Tail(text), <<>>)
    ELSE SplitWords(Tail(text), Append(word, Head(text)))

\* scraper.py 421-423: re.findall(r"[a-z0-9]+", ...) as a set
TokenizeForMatching(text) == SplitWords(NameLookupKey(text), <<>>)

\* scraper.py 429: kw = cls._name_lookup_key(keyword), for every keyword of the tables
KeywordKey == [keyword \in (Range(DRINK_ALCOHOL_KEYWORDS)
        \cup Range(DRINK_NON_ALCOHOL_KEYWORDS) \cup Range(BASE_FOOD_KEYWORDS)
        \cup UNION {Range(FOOD_SUBCATEGORY_RULES[i].keywords) : i \in DOMAIN FOOD_SUBCATEGORY_RULES} \cup UNION {Range(OTHER_TOP_CATEGORY_RULES[i].keywords) : i \in DOMAIN OTHER_TOP_CATEGORY_RULES}) |-> NameLookupKey(keyword)]

\* kw in haystack
ContainsText(haystack, kw) ==
    \E i \in 1..(Len(haystack) - Len(kw) + 1) : SubSeq(haystack, i, i + Len(kw) - 1) = kw

\* scraper.py 428-439: what one keyword adds to the score
KeywordHit(haystack, token_set, keyword) ==
    LET kw == KeywordKey[keyword]
    IN IF kw = <<>> THEN 0
       ELSE IF \E i \in DOMAIN kw : kw[i] = " "
       THEN (IF ContainsText(haystack, kw) THEN 2 ELSE 0)
       ELSE IF kw \in token_set THEN 2
       ELSE IF ContainsText(haystack, kw) THEN 1
       ELSE 0

RECURSIVE KeywordScore(_, _, _)
\* scraper.py 425-440
KeywordScore(haystack, token_set, keywords) ==
    IF keywords = <<>> THEN 0
    ELSE KeywordHit(haystack, token_set, Head(keywords))
         + KeywordScore(haystack, token_set, Tail(keywords))

\* the alcohol label needs a lead of two
BeverageLabelLeadOfTwo(alcohol_score, non_alcohol_score, haystack) ==
    IF alcohol_score >= 2 /\ alcohol_score >= non_alcohol_score + 2 THEN "Getränke > Alkohol"
    ELSE IF non_alcohol_score >= 2 THEN "Getränke > Alkoholfrei"
    ELSE IF ContainsText(haystack, <<"g", "e", "t", "r", "a", "e", "n", "k">>)
            \/ ContainsText(haystack, <<"g", "e", "t", "r", "a", "n", "k">>)
    THEN "Getränke > Alkoholfrei"
    ELSE "none"

\* scraper.py 452-459: the beverage step, "none" when no beverage rule fires
BeverageLabel(alcohol_score, non_alcohol_score, haystack) ==
    IF alcohol_score >= 2 /\ alcohol_score >= non_alcohol_score + 1 THEN "Getränke > Alkohol"
    ELSE IF non_alcohol_score >= 2 THEN "Getränke > Alkoholfrei"
    ELSE IF ContainsText(haystack, <<"g", "e", "t", "r", "a", "e", "n", "k">>)
            \/ ContainsText(haystack, <<"g", "e", "t", "r", "a", "n", "k">>)
    THEN "Getränke > Alkoholfrei"
    ELSE "none"

RECURSIVE BestFoodLastWins(_, _, _, _)
\* a later rule replaces an earlier one of the same score
BestFoodLastWins(rules, haystack, token_set, best) ==
    IF rules = <<>> THEN best
    ELSE LET score == KeywordScore(haystack, token_set, Head(rules).keywords)
         IN BestFoodLastWins(Tail(rules), haystack, token_set,
                             IF score >= best.score /\ score > 0
                             THEN [label |-> Head(rules).label, score |-> score] ELSE best)

RECURSIVE BestFood(_, _, _, _)
\* scraper.py 461-467: the loop over FOOD_SUBCATEGORY_RULES
BestFood(rules, haystack, token_set, best) ==
    IF rules = <<>> THEN best
    ELSE LET score == KeywordScore(haystack, token_set, Head(rules).keywords)
         IN BestFood(Tail(rules), haystack, token_set,
                     IF score > best.score
                     THEN [label |-> Head(rules).label, score |-> score] ELSE best)

RECURSIVE FirstTopCategory(_, _, _)
\* scraper.py 474-476: the first rule of OTHER_TOP_CATEGORY_RULES that scores
\* 2 or more, "none" when there is none
FirstTopCategory(rules, haystack, token_set) ==
    IF rules = <<>> THEN "none"
    ELSE IF KeywordScore(haystack, token_set, Head(rules).keywords) >= 2
    THEN Head(rules).label
    ELSE FirstTopCategory(Tail(rules), haystack, token_set)

\* the label that stands for the return value None
NoLabel == "None"

\* raw_category or "", product_name or ""
CategoryText(raw_category) == NormalizeWhitespace(StrOrEmpty(raw_category))

\* scraper.py 449: the text the rules are matched against
MatchHaystack(raw_category, product_name) ==
    NameLookupKey(CategoryText(raw_category) \o <<" ">> \o CategoryText(product_name))

\* the catch-all label is given to empty input as well
FallbackLabelAlways(category_text, product_text) == "Sonstiges"

\* scraper.py 445-447 and 478-480
FallbackLabel(category_text, product_text) ==
    IF category_text # <<>> \/ product_text # <<>> THEN "Sonstiges" ELSE NoLabel

\* scraper.py 442-480
ToCategoryLabel(raw_category, product_name) ==
    LET category_text == CategoryText(raw_category)
        product_text == CategoryText(product_name)
        match_haystack == MatchHaystack(raw_category, product_name)
        token_set == TokenizeForMatching(match_haystack)
        alcohol_score == KeywordScore(match_haystack, token_set, DRINK_ALCOHOL_KEYWORDS)
        non_alcohol_score == KeywordScore(match_haystack, token_set, DRINK_NON_ALCOHOL_KEYWORDS)
        beverage == BeverageLabel(alcohol_score, non_alcohol_score, match_haystack)
        best_food == BestFood(FOOD_SUBCATEGORY_RULES, match_haystack, token_set,
                              [label |-> "none", score |-> 0])
        top_category == FirstTopCategory(OTHER_TOP_CATEGORY_RULES, match_haystack, token_set)
    IN IF FallbackLabel(category_text, product_text) = NoLabel THEN NoLabel
       ELSE IF beverage # "none" THEN beverage
       ELSE IF best_food.label # "none" /\ best_food.score >= 1 THEN best_food.label
       ELSE IF KeywordScore(match_haystack, token_set, BASE_FOOD_KEYWORDS) >= 1
       THEN "Lebensmittel > Sonstiges"
       ELSE IF top_category # "none" THEN top_category
       ELSE FallbackLabel(category_text, product_text)

\* the words product names are made of
ClassifierWords ==
    {
     <<"B", "i", "e", "r">>, <<"W", "e", "i", "n">>, <<"W", "a", "s", "s", "e", "r">>, <<"a",
     "l", "k", "o", "h", "o", "l", "f", "r", "e", "i">>, <<"W", "e", "i", "n", "e", "s", "s",
     "i", "g">>, <<"S", "a", "l", "a", "t">>, <<"A", "p", "f", "e", "l">>, <<"R", "e", "i",
     "s">>, <<"D", "e", "o">>, <<"T", "i", "e", "r">>, <<"F", "e", "i", "n", "k", "o", "s",
     "t">>, <<"K", "i", "n", "d", "l", "e">>, <<"P", "i", "c", "k">>, <<"u", "p">>, <<"x", "y">>
    }

RECURSIVE NamesOfWords(_)
\* the names of n words, joined by blanks
NamesOfWords(n) ==
    IF n = 0 THEN {<<>>}
    ELSE IF n = 1 THEN ClassifierWords
    ELSE {w \o <<" ">> \o rest : w \in ClassifierWords, rest \in NamesOfWords(n - 1)}

ClassifyInit ==
    /\ PipelineIdle
    /\ pc = "classify"
    /\ total_stats = ZeroStats
    /\ dry_run = FALSE
    /\ \E raw_category \in ({NoneValue, <<" ", " ">>, <<"O", "b", "s", "t">>, <<"G", "e", "t",
            "r", "ä", "n", "k", "e">>}),
            product_name \in (UNION {NamesOfWords(n) : n \in 0..MaxNameWords}) :
          obs = [raw_category |-> raw_category, product_name |-> product_name]

\* the scores a call of _to_category_label computes on its way: scraper.py
\* 452-453, 463, 470 and 475
ClassifierScores(raw_category, product_name) ==
    LET match_haystack == MatchHaystack(raw_category, product_name)
        token_set == TokenizeForMatching(match_haystack)
    IN [alcohol |-> KeywordScore(match_haystack, token_set, DRINK_ALCOHOL_KEYWORDS),
        non_alcohol |-> KeywordScore(match_haystack, token_set, DRINK_NON_ALCOHOL_KEYWORDS),
        food |-> [i \in DOMAIN FOOD_SUBCATEGORY_RULES |->
                     KeywordScore(match_haystack, token_set, FOOD_SUBCATEGORY_RULES[i].keywords)],
        base_food |-> KeywordScore(match_haystack, token_set, BASE_FOOD_KEYWORDS),
        top |-> [i \in DOMAIN OTHER_TOP_CATEGORY_RULES |->
                    KeywordScore(match_haystack, token_set,
                                 OTHER_TOP_CATEGORY_RULES[i].keywords)],
        beverage_word |->
            \/ ContainsText(match_haystack, <<"g", "e", "t", "r", "a", "e", "n", "k">>)
            \/ ContainsText(match_haystack, <<"g", "e", "t", "r", "a", "n", "k">>)]

\* one call of _to_category_label
Classify ==
    /\ pc = "classify"
    /\ obs' = [raw_category |-> obs.raw_category, product_name |-> obs.product_name,
               scores |-> ClassifierScores(obs.raw_category, obs.product_name),
               label |-> ToCategoryLabel(obs.raw_category, obs.product_name)]
    /\ pc' = "classified"
    /\ UNCHANGED <<now, offers_table, run_start_time, dry_run, retailer_mapping, stores,
                   store_idx, total_stats, store_had_error, fetchVars, offers, syncVars,
                   exit_code>>

ClassifySpec == ClassifyInit /\ [][(Classify)]_vars

\* ===================================================================== claims
\* the retailer whose iteration ended last
LastStore == stores[store_idx - 1]

RowsOf(retailer) == {r \in offers_table : r.store = retailer}

IterationEnded == pc \in {"loop", "summary", "exited"} /\ obs.phase \in {"DONE", "FAILED"}

\* C1: once the mark (sync_offers_batch) and then the sweep
\* (prune_stale_offers(T, R)) of retailer R have both succeeded in a run, no row
\* stored for R has scraped_at strictly less than T.
MarkAndSweepInvariant ==
    (obs.mark = "returned" /\ obs.sweep = "ok") =>
        \A r \in RowsOf(LastStore) : r.scraped_at >= run_start_time

\* a sweep that removed stale rows and left the rows of this run
MarkAndSweepWitness ==
    /\ obs.mark = "returned"
    /\ obs.sweep = "ok"
    /\ total_stats.pruned > 0
    /\ RowsOf(LastStore) # {}

\* C2: the sweep of a retailer is entered only after the mark of that retailer
\* returned in the same run; when the upsert raises, no sweep is issued for it.
SweepOnlyAfterMark ==
    /\ pc = "sweep" => obs.mark = "returned"
    /\ obs.sweep # "none" => obs.mark = "returned"
    /\ obs.mark = "raised" => (pc # "sweep" /\ obs.sweep = "none")

\* the upsert of the first retailer raised and no sweep followed; the sweep of the
\* second retailer is entered after its mark returned
SweepOnlyAfterMarkWitness ==
    /\ pc = "sweep"
    /\ obs.mark = "returned"
    /\ store_idx = 2
    /\ total_stats.store_errors = 1
    /\ total_stats.pruned = 0

EmbeddingGate ==
    /\ [](\A r \in offers_table : r.embedding = 768)
    /\ [](pc \in {"mark", "sweep"} => \A i \in 1..Len(offers) : offers[i].embedding = 768)
    /\ [][pc = "embed" =>
            total_stats'.failed =
                total_stats.failed + Len(offers) - (IF pc' = "mark" THEN Len(offers') ELSE 0)]_vars
    /\ [][(pc = "mark" /\ pc' = "sweep") => total_stats'.failed = total_stats.failed]_vars

\* an offer was dropped for its embedding and the others go to the upsert
EmbeddingGateWitness ==
    /\ pc = "mark"
    /\ total_stats.failed > 0
    /\ total_stats.store_errors = 0
    /\ Len(offers) > 0

\* C5: a fetch that raised for a retailer (first page or later) makes the retailer
\* FAILED and skips its remaining phases: no embedding, no upsert, no sweep.
FetchErrorSkipsRetailer ==
    obs.fetch_error =>
        /\ pc \notin {"embed", "mark", "sweep"}
        /\ obs.mark = "none"
        /\ obs.sweep = "none"
        /\ obs.phase \in {"FETCHING", "FAILED"}

\* the positions of the retailer loop of main.py 89-174
LoopPhases == {"loop", "fetch", "fetched", "embed", "mark", "sweep"}

\* C6: a failure while processing one retailer affects that retailer only: the
\* loop goes through the store list one retailer at a time and leaves it only
\* for the summary, with every retailer of the list begun, and a run that
\* entered the retailer loop always reaches the final health evaluation.
FailureIsolation ==
    /\ [](pc = "summary" => store_idx = Len(stores) + 1)
    /\ [][(pc \in LoopPhases) =>
             /\ pc' \in LoopPhases \cup {"summary"}
             /\ store_idx' \in {store_idx, store_idx + 1}
             /\ (store_idx' = store_idx + 1 => obs'.phase \in {"DONE", "FAILED"})]_vars
    /\ (pc \in LoopPhases) ~> (pc = "summary")

\* the first retailer failed in its mark, the second one was marked and swept,
\* and the run stands at the summary
FailureIsolationWitness ==
    /\ pc = "summary"
    /\ store_idx = 3
    /\ total_stats.store_errors = 1
    /\ obs.mark = "returned"
    /\ obs.sweep = "ok"

\* the batch of the current mark is in the store already, as this run wrote it
AlreadyApplied ==
    \A i \in 1..Len(offers) :
        \E r \in offers_table :
            /\ r.offer_id = offers[i].offer_id
            /\ r.store = offers[i].retailer
            /\ r.scraped_at = run_start_time

RetryOnlyTransientSet ==
    /\ [](req_attempt <= 3 /\ sync_attempt <= 3)
    /\ [][req_attempt' = req_attempt + 1 =>
             \/ req_exc'.cls \in {"Timeout", "ConnectionError"}
             \/ req_exc'.status \in {408, 425, 429, 500, 502, 503, 504}]_vars
    /\ [][sync_attempt' = sync_attempt + 1 =>
             \/ sync_exc'.cls \in {"TimeoutError", "ConnectionError"}
             \/ sync_exc'.status \in {408, 425, 429, 500, 502, 503, 504}]_vars

\* C8 as amended: the fetch client retries only after a timeout, a connection
\* error or a status of the fixed set; the store client retries after a status
\* of the fixed set or any status from 500 up, and after a timeout, a connection
\* error or any other OSError; both make at most 3 attempts, and any other
\* failure ends the call at once.
RetryPolicy ==
    /\ [](req_attempt <= 3 /\ sync_attempt <= 3)
    /\ [][req_attempt' = req_attempt + 1 =>
             \/ req_exc'.cls \in {"Timeout", "ConnectionError"}
             \/ req_exc'.status \in {408, 425, 429, 500, 502, 503, 504}]_vars
    /\ [][sync_attempt' = sync_attempt + 1 =>
             \/ sync_exc'.cls \in {"TimeoutError", "ConnectionError", "OSError"}
             \/ sync_exc'.status \in {408, 425, 429, 500, 502, 503, 504}
             \/ sync_exc'.status >= 500]_vars

\* the store client is at its third attempt after a status outside the fixed set
RetryPolicyWitness ==
    /\ pc = "mark"
    /\ sync_attempt = 3
    /\ sync_exc = [cls |-> "APIError", status |-> 501]

\* C9: prune_stale_offers never raises: when the delete fails the store and the
\* counters stay as they are, the retailer is not marked as failed, and the run
\* goes on to the next retailer.
PruneNeverRaises ==
    [][(pc = "sweep" /\ obs'.sweep = "error") =>
          /\ offers_table' = offers_table
          /\ total_stats' = total_stats
          /\ store_had_error' = store_had_error
          /\ obs'.phase = "DONE"
          /\ pc' = "loop"
          /\ store_idx' = store_idx + 1]_vars

\* a failed sweep left stale rows behind and the retailer is not marked as failed
PruneNeverRaisesWitness ==
    /\ obs.sweep = "error"
    /\ pc = "loop"
    /\ ~store_had_error
    /\ \E r \in RowsOf(LastStore) : r.scraped_at < run_start_time

\* C10: prune_stale_offers(T, R) deletes exactly the rows with store = R and
\* scraped_at older than T and returns their count; all other rows stay.
PruneExact ==
    [][(pc = "sweep" /\ obs'.sweep = "ok") =>
          /\ offers_table' =
                {r \in offers_table : ~(r.store = CurStore /\ r.scraped_at < run_start_time)}
          /\ total_stats'.pruned =
                total_stats.pruned + Cardinality(offers_table) - Cardinality(offers_table')]_vars

\* the sweep of the first retailer deleted a stale row and left the row of this run
PruneExactWitness ==
    /\ obs.sweep = "ok"
    /\ pc = "loop"
    /\ store_idx = 2
    /\ total_stats.pruned = 1
    /\ \E r \in RowsOf(LastStore) : r.scraped_at = run_start_time

\* C11 as stated: the expiry sweep runs exactly once per process invocation,
\* before the first retailer's fetch begins.
ExpirySweepOncePerInvocation ==
    pc \in (LoopPhases \cup {"summary"}) => obs.expiry_calls = 1

\* C11 as amended: a run that is not a dry run and whose initialization succeeded
\* calls the expiry sweep exactly once, before the first fetch, and a dry run
\* never calls it; the call deletes the rows whose valid_until is in the past,
\* whatever their retailer and scraped_at, or, when the delete fails, leaves the
\* table as it is, and in both cases the run goes on to the retailer loop.
ExpirySweep ==
    /\ [](pc \in (LoopPhases \cup {"summary"}) => obs.expiry_calls = (IF dry_run THEN 0 ELSE 1))
    /\ [][(pc = "init" /\ obs'.expiry_calls = 1) =>
             /\ pc' = "loop"
             /\ \/ offers_table' = offers_table
                \/ offers_table' = {r \in offers_table : ~(r.valid_until < now)}]_vars

\* the expiry sweep failed, an expired row is still stored, and the first fetch begins
ExpirySweepWitness ==
    /\ pc = "fetch"
    /\ store_idx = 1
    /\ ~dry_run
    /\ obs.expiry_calls = 1
    /\ \E r \in offers_table : r.valid_until < run_start_time

\* C12: every row an upsert of a run writes carries scraped_at equal to the run's
\* start timestamp, for every retailer of the run, whatever scraped_at the offer
\* got at its construction.
UpsertedRowsCarryRunStart ==
    [][(pc = "mark") =>
          (\A r \in offers_table' \ offers_table : r.scraped_at = run_start_time)]_vars

\* the second retailer's offers were constructed after the run's start and its
\* rows are stored with the run timestamp
UpsertedRowsCarryRunStartWitness ==
    /\ pc = "sweep"
    /\ store_idx = 2
    /\ obs.mark = "returned"
    /\ now > run_start_time
    /\ Cardinality({r \in RowsOf(CurStore) : r.scraped_at = run_start_time}) = 2

\* C13: evaluate_run_failure_reason returns null for every stats,
\* allow_partial_success and max_failure_rate when dry_run is true.
DryRunNeverFails ==
    (pc = "policy_done" /\ dry_run) => obs.failure_reason = "none"

\* a dry run with nothing fetched, a failed retailer and partial success disallowed
DryRunNeverFailsWitness ==
    /\ pc = "policy_done"
    /\ dry_run
    /\ total_stats.fetched = 0
    /\ total_stats.store_errors > 0
    /\ ~obs.allow_partial_success
    /\ obs.max_failure_rate = 0

\* C14: for a run that is not a dry run, fetched = 0 gives a failure reason,
\* whatever the other counters, allow_partial_success and max_failure_rate are.
NothingFetchedFails ==
    (pc = "policy_done" /\ ~dry_run /\ total_stats.fetched = 0) =>
        obs.failure_reason # "none"

\* nothing fetched while every other input is healthy
NothingFetchedFailsWitness ==
    /\ pc = "policy_done"
    /\ ~dry_run
    /\ total_stats.fetched = 0
    /\ total_stats.inserted > 0
    /\ total_stats.embedded > 0
    /\ total_stats.store_errors = 0
    /\ total_stats.failure_rate.num = 0
    /\ obs.allow_partial_success
    /\ obs.max_failure_rate = 100

\* C15: for a run that is not a dry run the evaluator returns the reason of the
\* first check that holds, in the order nothing fetched, no embeddings, nothing
\* upserted, retailer failures with partial success disallowed, failure rate
\* above max_failure_rate, and null when none holds; stats stay as they are.
FirstFailingCheckWins ==
    /\ [](pc = "policy_done" /\ ~dry_run =>
            /\ total_stats.fetched = 0 => obs.failure_reason = "no_offers_fetched"
            /\ (total_stats.fetched # 0 /\ total_stats.embedded = 0) =>
                   obs.failure_reason = "no_embeddings"
            /\ (total_stats.fetched # 0 /\ total_stats.embedded # 0
                   /\ total_stats.inserted = 0) => obs.failure_reason = "upserted_zero"
            /\ (total_stats.fetched # 0 /\ total_stats.embedded # 0
                   /\ total_stats.inserted # 0 /\ total_stats.store_errors > 0
                   /\ ~obs.allow_partial_success) => obs.failure_reason = "retailers_failed"
            /\ (total_stats.fetched # 0 /\ total_stats.embedded # 0
                   /\ total_stats.inserted # 0
                   /\ ~(total_stats.store_errors > 0 /\ ~obs.allow_partial_success)) =>
                   obs.failure_reason =
                       IF total_stats.failure_rate.num * 100
                              > obs.max_failure_rate * total_stats.failure_rate.den
                       THEN "failure_rate_too_high" ELSE "none")
    /\ [][(pc = "policy") => total_stats' = total_stats]_vars

\* no embeddings and nothing upserted at once: the embeddings check comes first
FirstFailingCheckWinsWitness ==
    /\ pc = "policy_done"
    /\ ~dry_run
    /\ total_stats.fetched > 0
    /\ total_stats.embedded = 0
    /\ total_stats.inserted = 0
    /\ total_stats.store_errors > 0
    /\ obs.failure_reason = "no_embeddings"

DryRunWritesNothing ==
    /\ [][dry_run => offers_table' = offers_table]_vars
    /\ [](dry_run =>
            /\ pc \notin {"embed", "mark", "sweep"}
            /\ obs.expiry_calls = 0
            /\ total_stats.embedded = 0
            /\ total_stats.inserted = 0
            /\ total_stats.pruned = 0)

\* a dry run fetched offers and ended while an expired row of an earlier run is
\* still stored
DryRunWritesNothingWitness ==
    /\ dry_run
    /\ pc = "exited"
    /\ total_stats.fetched > 0
    /\ \E r \in offers_table : r.valid_until < run_start_time

\* C19: _parse_offer never raises past its boundary: every raw item, also a
\* malformed one, yields an offer or null, and the items after it are parsed.
ParseNeverRaises ==
    /\ pc # "parse_aborted"
    /\ (pc \in {"parse", "parse_done"} /\ obs.calls > 0) => obs.parsed.result \in {"offer", "null"}
    /\ pc = "parse_done" => obs.calls = 2

\* C20: _parse_offer returns null when neither the flat validFrom/validTo pair
\* nor the first entry of validityDates gives both bounds of a window; a flat
\* pair that is complete decides, whatever the list holds.
ValidityWindowRule ==
    (pc = "parse" /\ obs.calls = 1 /\ obs.item.kind = "mapping"
        /\ obs.item.required = "ok" /\ obs.item.retailer \in {"none", "indexed"}
        /\ (\A i \in DOMAIN obs.item.validityDates : obs.item.validityDates[i].to # 0)) =>
        /\ ((obs.item.validFrom = 0 \/ obs.item.validTo = 0) /\ obs.item.validityDates = <<>>)
              => (obs.parsed.result = "null" /\ obs.parsed.why = "no_validity")
        /\ (obs.item.validFrom # 0 /\ obs.item.validTo # 0) =>
              /\ obs.parsed.why # "no_validity"
              /\ obs.parsed.why = "duration" <=> obs.item.validTo - obs.item.validFrom > 14
        /\ ((obs.item.validFrom = 0 \/ obs.item.validTo = 0) /\ obs.item.validityDates # <<>>) =>
              /\ obs.parsed.why # "no_validity"
              /\ obs.parsed.why = "duration" <=>
                    obs.item.validityDates[1].to - obs.item.validityDates[1].from > 14

\* a complete flat pair of 14 days beside a list entry of 15 days: the item is
\* not rejected for its window
ValidityWindowRuleWitness ==
    /\ pc = "parse"
    /\ obs.calls = 1
    /\ obs.item.kind = "mapping"
    /\ obs.item.required = "ok"
    /\ obs.item.retailer = "indexed"
    /\ obs.item.validFrom = 1
    /\ obs.item.validTo = 15
    /\ obs.item.validityDates = <<[from |-> 1, to |-> 16]>>
    /\ obs.parsed.why \notin {"no_validity", "duration"}

\* the first call of _parse_offer has returned for an item that validates as a
\* MarktguruOffer
ParsedValidatedItem ==
    /\ pc = "parse"
    /\ obs.calls = 1
    /\ obs.item.kind = "mapping"
    /\ obs.item.required = "ok"
    /\ \A i \in DOMAIN obs.item.validityDates : obs.item.validityDates[i].to # 0

\* C21: _parse_offer returns null for every item whose resolved validity
\* window lasts more than 14 days, counted in whole days, and the duration
\* filter rejects no item whose window lasts 14 days or less.
DurationFilter ==
    (ParsedValidatedItem /\ obs.item.retailer \in {"none", "indexed"}) =>
        LET window == ResolveWindow(obs.item)
        IN (window.from # 0 /\ window.to # 0) =>
              /\ window.to - window.from > 14 =>
                    (obs.parsed.result = "null" /\ obs.parsed.why = "duration")
              /\ window.to - window.from <= 14 => obs.parsed.why # "duration"

\* a window of 15 days, taken from the list, is rejected
DurationFilterWitness ==
    /\ ParsedValidatedItem
    /\ obs.item.retailer = "indexed"
    /\ obs.item.validFrom = 0
    /\ obs.item.validityDates = <<[from |-> 1, to |-> 16]>>
    /\ obs.parsed.result = "null"
    /\ obs.parsed.why = "duration"

\* C22: the indexing filter of _parse_offer rejects an item only when its
\* retailer block explicitly marks the offer as not indexable; an item without
\* a retailer block is not rejected by the filter and parses to an offer.
RetailerIndexFilter ==
    ParsedValidatedItem =>
        /\ obs.parsed.why = "not_indexed" => obs.item.retailer = "not_indexed"
        /\ obs.item.retailer = "none" => obs.parsed.why # "not_indexed"
        /\ (obs.item.retailer = "none" /\ obs.item.validFrom = 1 /\ obs.item.validTo = 15)
              => obs.parsed.result = "offer"

\* C25: every BonalyzeOffer that is constructed has a non-empty product_name
\* in whitespace-normalized form, a non-empty offer_id and
\* regular_price >= price >= 0; construction fails when product_name or
\* offer_id normalizes to the empty text, and it never fails on a
\* regular_price below the price, which is raised to the price.
OfferConstructionRule ==
    pc = "constructed" =>
        LET kwargs == obs.kwargs
            offer == obs.offer
            name_empty == \A i \in DOMAIN kwargs.product_name : kwargs.product_name[i] \in {" ",
                    "None"}
            id_empty == \A i \in DOMAIN kwargs.offer_id : kwargs.offer_id[i] \in {" ", "None"}
        IN /\ offer.ok =>
                /\ offer.product_name # <<>>
                /\ offer.product_name[1] # " "
                /\ offer.product_name[Len(offer.product_name)] # " "
                /\ \A i \in 1..(Len(offer.product_name) - 1) :
                      ~(offer.product_name[i] = " " /\ offer.product_name[i + 1] = " ")
                /\ offer.offer_id # <<>>
                /\ offer.regular_price >= offer.price
                /\ offer.price >= 0
           /\ (name_empty \/ id_empty) => ~offer.ok
           /\ (~name_empty /\ ~id_empty /\ kwargs.price >= 0
                 /\ kwargs.regular_price < kwargs.price) =>
                 (offer.ok /\ offer.regular_price = kwargs.price)

\* C25 as the code has it: a regular_price below the price is raised to the
\* price when it is not negative; a negative regular_price fails the
\* construction like a negative price does.
OfferConstructionRuleNonNegative ==
    pc = "constructed" =>
        LET kwargs == obs.kwargs
            offer == obs.offer
            name_empty == \A i \in DOMAIN kwargs.product_name : kwargs.product_name[i] \in {" ",
                    "None"}
            id_empty == \A i \in DOMAIN kwargs.offer_id : kwargs.offer_id[i] \in {" ", "None"}
        IN /\ offer.ok =>
                /\ offer.product_name # <<>>
                /\ offer.product_name[1] # " "
                /\ offer.product_name[Len(offer.product_name)] # " "
                /\ \A i \in 1..(Len(offer.product_name) - 1) :
                      ~(offer.product_name[i] = " " /\ offer.product_name[i + 1] = " ")
                /\ offer.offer_id # <<>>
                /\ offer.regular_price >= offer.price
                /\ offer.price >= 0
           /\ (name_empty \/ id_empty) => ~offer.ok
           /\ (kwargs.price < 0 \/ kwargs.regular_price < 0) => ~offer.ok
           /\ (~name_empty /\ ~id_empty /\ kwargs.price >= 0 /\ kwargs.regular_price >= 0) =>
                 /\ offer.ok
                 /\ offer.price = kwargs.price
                 /\ offer.regular_price =
                       (IF kwargs.regular_price < kwargs.price THEN kwargs.price
                        ELSE kwargs.regular_price)

\* a name with a doubled inner space and a regular_price below the price
OfferConstructionRuleWitness ==
    /\ pc = "constructed"
    /\ obs.kwargs.product_name = <<"a", " ", " ", "a">>
    /\ obs.kwargs.price = 2
    /\ obs.kwargs.regular_price = 1
    /\ obs.offer.ok
    /\ obs.offer.product_name = <<"a", " ", "a">>
    /\ obs.offer.regular_price = 2

\* the first call of _parse_offer has returned for an item that passes the
\* filter chain: it validates, the index filter lets it through and its
\* window resolves to at most 14 days
ParsedItemPassedFilters ==
    /\ ParsedValidatedItem
    /\ obs.item.retailer \in {"none", "indexed"}
    /\ \/ obs.item.validFrom = 1 /\ obs.item.validTo = 15
       \/ /\ obs.item.validFrom = 0 \/ obs.item.validTo = 0
          /\ obs.item.validityDates = <<[from |-> 1, to |-> 15]>>

\* C23: for every raw item that passes the filter chain and has no oldPrice,
\* _parse_offer returns an offer, and its regular_price equals its price.
RegularPriceFallback ==
    (ParsedItemPassedFilters /\ obs.item.oldPrice = 0 - 1) =>
        /\ obs.parsed.result = "offer"
        /\ obs.parsed.regular_price = obs.parsed.price

\* C24: for every raw item that passes the filter chain, _parse_offer returns
\* an offer whose source_url is the payload's sourceUrl as it stands when the
\* field is there and not empty, and the link synthesized from the retailer
\* and the offer id otherwise.
SourceUrlRule ==
    ParsedItemPassedFilters =>
        /\ obs.parsed.result = "offer"
        /\ obs.parsed.source_url =
              (IF obs.item.sourceUrl \notin {<<"None">>, <<>>}
               THEN [kind |-> "payload", text |-> obs.item.sourceUrl]
               ELSE [kind |-> "synthesized", retailer |-> "edeka", offer_id |-> obs.item.id])

\* the name holds a character that survives slugification
HasSlugCharacter(name) == \E i \in DOMAIN name : name[i] \in {"a", "A", "ä"}

\* C26: every row built by _build_offer_row has a non-empty product_slug: the
\* slug of the product name (lower-case ASCII letters and digits joined by
\* single dashes) when that slug is not empty, and offer-{offer_id} otherwise.
ProductSlugRule ==
    pc = "row_built" =>
        LET slug == obs.row.product_slug
        IN /\ slug # <<>>
           /\ HasSlugCharacter(obs.row.product_name) =>
                 /\ slug = Slugify(obs.row.product_name)
                 /\ \A i \in DOMAIN slug : slug[i] \in {"a", "-"}
                 /\ slug[1] # "-" /\ slug[Len(slug)] # "-"
                 /\ \A i \in 1..(Len(slug) - 1) : ~(slug[i] = "-" /\ slug[i + 1] = "-")
                 /\ Len(SelectSeq(slug, LAMBDA c : c = "a")) =
                       Len(SelectSeq(obs.row.product_name, LAMBDA c : c \in {"a", "A", "ä"}))
           /\ ~HasSlugCharacter(obs.row.product_name) =>
                 slug = <<"offer-">> \o obs.row.offer_id

\* a name of punctuation and a dropped letter falls back to the offer id
ProductSlugRuleWitness ==
    /\ pc = "row_built"
    /\ obs.row.product_name = <<"!", "ß">>
    /\ obs.row.offer_id = <<"1">>
    /\ obs.row.product_slug = <<"offer-", "1">>

EmbeddingsMapValid ==
    /\ [](/\ \A t \in DOMAIN obs.results : obs.results[t] = 768
          /\ \A row \in obs.cache_writes : row.embedding = 768
          /\ pc = "embed_done" =>
                \A k \in DOMAIN obs.missing :
                   (k \in DOMAIN obs.embeddings /\ obs.embeddings[k].values # 768)
                      => obs.missing[k] \notin DOMAIN obs.results)
    /\ (pc = "embed_cache") ~> (pc = "embed_done")

\* the call has returned after the cache lookup raised, a per-item call gave
\* no valid vector for text 1, text 2 got its vector and the cache upsert raised
EmbeddingsMapValidWitness ==
    /\ pc = "embed_done"
    /\ Len(obs.missing) = MaxTexts
    /\ 1 \in obs.item_calls
    /\ 1 \notin DOMAIN obs.results
    /\ 2 \in DOMAIN obs.results
    /\ obs.cache_error
    /\ obs.cache_writes = {}

\* C29: when an embedding batch call fails or answers with a number of entries
\* other than the batch size, every text of that batch gets a per-item call,
\* and the failure discards the embeddings neither of the other texts of the
\* batch nor of later batches.
BatchFailureFallsBackPerItem ==
    pc = "embed_done" =>
        /\ obs.batch_failed \subseteq obs.item_calls
        /\ obs.obtained \subseteq DOMAIN obs.results
        /\ obs.not_found = {}

\* C29 as the code has it: a batch call that answers with another number of
\* entries or raises an error other than a 404 makes every text of the batch
\* go through a per-item call, and every valid vector obtained is in the
\* result, for this batch and the others.  A 404 that no model switch resolves
\* ends the generation: the texts of that batch and of all later batches get
\* no per-item call and no vector.
BatchFailureFallsBackUnlessNotFound ==
    /\ Len(obs.embeddings) <= Len(obs.missing)
    /\ \A k \in DOMAIN obs.embeddings : obs.embeddings[k].text = obs.missing[k]
    /\ (obs.batch_failed \ obs.not_found) \subseteq obs.item_calls
    /\ obs.not_found \cap obs.item_calls = {}
    /\ pc = "embed_done" =>
          /\ Len(obs.embeddings) = Len(obs.missing)
          /\ obs.obtained \subseteq DOMAIN obs.results
          /\ obs.not_found \cap DOMAIN obs.results = {}

\* the first batch fell back to per-item calls, text 1 got no vector there,
\* text 2 and the text of the second batch have theirs in the result
BatchFailureFallsBackWitness ==
    /\ pc = "embed_done"
    /\ obs.missing = <<1, 2, 3>>
    /\ obs.batch_failed = {1, 2}
    /\ obs.item_calls = {1, 2}
    /\ obs.not_found = {}
    /\ DOMAIN obs.results = {2, 3}

\* C30: when the upsert call of a retailer's batch fails for good (retries
\* used up, or an error that is not retried), the whole batch counts as
\* failed: inserted stays, failed grows by the number of offers of the batch
\* and store_errors by one, however many attempts were made.
UpsertFailureAccounting ==
    /\ [][(pc = "mark" /\ obs'.mark = "raised") =>
             /\ total_stats'.inserted = total_stats.inserted
             /\ total_stats'.failed = total_stats.failed + Len(offers)
             /\ total_stats'.store_errors = total_stats.store_errors + 1]_vars
    /\ [][(pc = "mark" /\ pc' = "mark") => total_stats' = total_stats]_vars

\* the batch of the first retailer is accounted as failed
UpsertFailureAccountingWitness ==
    /\ obs.mark = "raised"
    /\ total_stats.fetched = 1
    /\ total_stats.inserted = 0
    /\ total_stats.failed = 1
    /\ total_stats.store_errors = 1

\* the call of _to_category_label has returned for an input that is not empty
ClassifiedNonEmpty ==
    /\ pc = "classified"
    /\ \/ \E i \in DOMAIN obs.product_name : obs.product_name[i] # " "
       \/ obs.raw_category # <<"None">>
          /\ \E i \in DOMAIN obs.raw_category : obs.raw_category[i] # " "

\* C31: in the beverage step the alcohol label is returned exactly when the
\* alcohol score is at least 2 and at least 1 above the non-alcohol score;
\* otherwise the non-alcohol label is returned when the non-alcohol score is
\* at least 2, so equal scores of 2 or more give the non-alcohol label.
BeverageStepRule ==
    ClassifiedNonEmpty =>
        /\ obs.label = "Getränke > Alkohol" <=>
              (obs.scores.alcohol >= 2 /\ obs.scores.alcohol - obs.scores.non_alcohol >= 1)
        /\ (obs.scores.non_alcohol >= 2
               /\ ~(obs.scores.alcohol >= 2 /\ obs.scores.alcohol - obs.scores.non_alcohol >= 1))
              => obs.label = "Getränke > Alkoholfrei"

\* "Bier Wasser": both scores are 2 and the non-alcohol label is returned
BeverageStepRuleWitness ==
    /\ ClassifiedNonEmpty
    /\ obs.product_name = <<"B", "i", "e", "r", " ", "W", "a", "s", "s", "e", "r">>
    /\ obs.scores.alcohol = 2
    /\ obs.scores.non_alcohol = 2
    /\ obs.label = "Getränke > Alkoholfrei"

\* no beverage rule fires for the input of the call that has returned
NoBeverageRuleFired ==
    /\ ClassifiedNonEmpty
    /\ ~(obs.scores.alcohol >= 2 /\ obs.scores.alcohol - obs.scores.non_alcohol >= 1)
    /\ obs.scores.non_alcohol < 2
    /\ ~obs.scores.beverage_word

ClassifierNullRule ==
    pc = "classified" =>
        /\ obs.label = "None" <=> ~ClassifiedNonEmpty
        /\ (NoBeverageRuleFired /\ obs.scores.base_food = 0
               /\ (\A i \in DOMAIN obs.scores.food : obs.scores.food[i] = 0)
               /\ (\A i \in DOMAIN obs.scores.top : obs.scores.top[i] < 2))
              <=> obs.label = "Sonstiges"

\* "Kindle" under a blank hint: a non-food rule scores 1, no rule matches and
\* the catch-all label is returned
ClassifierNullRuleWitness ==
    /\ pc = "classified"
    /\ obs.raw_category = <<" ", " ">>
    /\ obs.product_name = <<"K", "i", "n", "d", "l", "e">>
    /\ \E i \in DOMAIN obs.scores.top : obs.scores.top[i] = 1
    /\ obs.label = "Sonstiges"

SweepNeedsUpsertedOffer ==
    /\ [](pc = "sweep" =>
            /\ obs.mark = "returned"
            /\ Len(offers) >= 1
            /\ \A i \in 1..Len(offers) : offers[i].embedding = 768)
    /\ [][(pc \in {"loop", "fetch", "fetched", "embed", "mark"}) =>
             \A r \in offers_table : \E q \in offers_table' : q.offer_id = r.offer_id]_vars
    /\ [][(pc = "sweep" /\ offers_table' # offers_table) =>
             (Len(offers) >= 1 /\ obs.mark = "returned")]_vars

\* the offers of a retailer all lacked a valid embedding: its iteration ended
\* without mark or sweep and the rows of the run before are still stored
SweepNeedsUpsertedOfferWitness ==
    /\ pc = "loop"
    /\ store_idx > 1
    /\ obs.phase = "DONE"
    /\ obs.fetched # {}
    /\ obs.mark = "none"
    /\ obs.sweep = "none"
    /\ total_stats.failed > 0
    /\ \E r \in RowsOf(LastStore) : r.scraped_at < run_start_time

\* C36: at every point of a run 0 <= failed <= fetched: no offer is counted as
\* failed more than once across the embedding and the upsert paths, so the
\* failure rate derived in the summary lies in [0, 1].
FailedAtMostFetched ==
    /\ 0 <= total_stats.failed
    /\ total_stats.failed <= total_stats.fetched
    /\ LET failure_rate == FailureRate(total_stats.failed, total_stats.fetched)
       IN /\ failure_rate.den > 0
          /\ 0 <= failure_rate.num
          /\ failure_rate.num <= failure_rate.den

\* one offer was dropped for its embedding and the upsert of the other raised:
\* both fetched offers are failed, each counted once
FailedAtMostFetchedWitness ==
    /\ obs.mark = "raised"
    /\ Cardinality(obs.fetched) = 2
    /\ total_stats.fetched = 2
    /\ total_stats.failed = 2

\* C37 as stated: a non-dry invocation that ends with exit status zero has run
\* the health evaluation on counters with fetched > 0, embedded > 0 and
\* inserted > 0: no non-dry run ends with status zero without having persisted
\* an offer.
ZeroExitMeansPersisted ==
    (pc = "exited" /\ ~dry_run /\ exit_code = 0) =>
        /\ obs.failure_reason = "none"
        /\ total_stats.fetched > 0
        /\ total_stats.embedded > 0
        /\ total_stats.inserted > 0
        /\ \E r \in offers_table : r.scraped_at = run_start_time

\* C37 as amended: a non-dry invocation whose initialization succeeded and that
\* ends with exit status zero has run the health evaluation on counters with
\* fetched > 0, embedded > 0 and inserted > 0, and a row of this run is stored;
\* an invocation whose initialization raised ends with status zero unevaluated,
\* with all counters zero and the table as it was.
ZeroExitAfterInitMeansPersisted ==
    /\ [](pc = "exited" /\ ~dry_run /\ exit_code = 0 /\ obs.expiry_calls > 0 =>
            /\ obs.failure_reason = "none"
            /\ total_stats.fetched > 0
            /\ total_stats.embedded > 0
            /\ total_stats.inserted > 0
            /\ \E r \in offers_table : r.scraped_at = run_start_time)
    /\ [](pc = "exited" /\ ~dry_run /\ obs.expiry_calls = 0 =>
            /\ exit_code = 0
            /\ obs.failure_reason = "unevaluated"
            /\ total_stats = ZeroStats)
    /\ [][(pc = "init" /\ pc' = "exited") => offers_table' = offers_table]_vars

\* a run with a dropped offer, judged healthy under a tolerant failure rate
ZeroExitAfterInitMeansPersistedWitness ==
    /\ pc = "exited"
    /\ ~dry_run
    /\ exit_code = 0
    /\ obs.failure_reason = "none"
    /\ total_stats.failed > 0
    /\ total_stats.inserted > 0
    /\ \E r \in offers_table : r.scraped_at = run_start_time

\* C38: _generate_embeddings_api returns exactly one entry per input text, in
\* the order of the input, an empty entry marking a text that failed, on every
\* path (aligned batch, per-item fallback, 404 with and without a fallback
\* model); so get_embeddings_batch never stores a vector under another text.
EmbeddingsAligned ==
    /\ pc = "embed_batch" =>
          /\ Len(obs.embeddings) = obs.i - 1
          /\ \A k \in DOMAIN obs.embeddings : obs.embeddings[k].text = obs.missing[k]
    /\ pc \in {"embed_store", "embed_done"} =>
          /\ Len(obs.embeddings) = Len(obs.missing)
          /\ \A k \in DOMAIN obs.embeddings :
                /\ obs.embeddings[k].text = obs.missing[k]
                /\ IF obs.missing[k] \in obs.obtained
                   THEN obs.embeddings[k].values = EMBEDDING_DIMENSION
                   ELSE obs.embeddings[k].values = 0
    /\ pc = "embed_done" =>
          \A t \in DOMAIN obs.results :
              \/ t \notin Range(obs.missing)
              \/ \E k \in DOMAIN obs.embeddings :
                    /\ obs.embeddings[k].text = t
                    /\ obs.missing[k] = t
                    /\ obs.embeddings[k].values = obs.results[t]
                    /\ t \in obs.obtained

\* three texts in two batches: the per-item call of the second text failed, its
\* entry is empty, and the third text keeps its own vector
EmbeddingsAlignedWitness ==
    /\ pc = "embed_done"
    /\ Len(obs.missing) = 3
    /\ obs.batch_failed # {}
    /\ obs.embeddings[1].values = EMBEDDING_DIMENSION
    /\ obs.embeddings[2].values = 0
    /\ obs.embeddings[3].values = EMBEDDING_DIMENSION
    /\ DOMAIN obs.results = {obs.missing[1], obs.missing[3]}

====
